---- MODULE Spec2Model ----
(***************************************************************************)
(* Model of the client-side entity sync layer of the conference contact    *)
(* tracker: the profile provider (hooks/use-profile.tsx), the QR-settings  *)
(* provider (hooks/use-qr-settings.tsx), the contacts provider             *)
(* (hooks/use-contacts.tsx) and the profile-picture handlers of            *)
(* components/profile-settings.tsx, over the backend wrapper of            *)
(* lib/appwrite.ts.                                                        *)
(*                                                                         *)
(* JavaScript runs one handler at a time: every step between two awaits is *)
(* one atomic action.  An invocation of an async handler is a process      *)
(* record holding its position (pc) and the values its closure captured.   *)
(* A remote call is served at the step that delivers its answer.           *)
(***************************************************************************)
EXTENDS Integers, Sequences, FiniteSets, TLC

\* ------------------------------------------------------------------ bounds
\* Handler invocations (loads, updates, picture handlers, auth changes) per run.
MaxOps == 3
\* The same, for the runs that interleave the three providers.
MaxAllOps == 2
\* The same, for the runs of the profile and QR-settings hooks under fairness.
MaxLiveOps == 3

\* ------------------------------------------------------- JavaScript values
\* One shape for every value, so that any two values can be compared.
Undefined == [t |-> "undefined", s |-> "", o |-> {}]
Null == [t |-> "null", s |-> "", o |-> {}]
Str(x) == [t |-> "string", s |-> x, o |-> {}]
Obj(m) == [t |-> "object", s |-> "", o |-> m]

\* JavaScript truthiness of the values above (objects are truthy, '' is not).
Truthy(v) == v.t = "object" \/ (v.t = "string" /\ v.s # "")
\* a || b
OrElse(a, b) == IF Truthy(a) THEN a ELSE b
\* a ?? b
Coalesce(a, b) == IF a.t \in {"undefined", "null"} THEN b ELSE a

\* The social maps the model draws from: sets of <<platform, url>> pairs.
NoSocials == {}
OneSocial == {<<"linkedin", "https://linkedin.com/in/a">>}
SocialMaps == {NoSocials, OneSocial}

\* JSON.stringify of a social map.
JsonStringifyMap(m) ==
    IF m = NoSocials THEN "{}"
    ELSE "{\"linkedin\":\"https://linkedin.com/in/a\"}"

\* JSON.parse: the texts that parse, and what they parse to; any other text
\* makes JSON.parse throw.
JsonParses(text) ==
    text \in {"{}", "{\"linkedin\":\"https://linkedin.com/in/a\"}", "null"}
JsonParse(text) ==
    IF text = "{}" THEN Obj(NoSocials)
    ELSE IF text = "{\"linkedin\":\"https://linkedin.com/in/a\"}" THEN Obj(OneSocial)
    ELSE Null

\* JSON.stringify of an object: a property whose value is undefined is left out.
JsonStringify(obj) ==
    [f \in {g \in DOMAIN obj : obj[g].t # "undefined"} |-> obj[f]]
\* Reading property f of a parsed object: undefined when the text had no f.
Get(obj, f) == IF f \in DOMAIN obj THEN obj[f] ELSE Undefined

\* ------------------------------------------------------------------ users
NoUser == "none"
Users == {"userA", "userB"}
\* user.name and user.email of the authenticated account (userB has no name).
UserName(u) == IF u = "userA" THEN Str("Alice") ELSE Str("")
UserEmail(u) == IF u = "userA" THEN Str("alice@x.io") ELSE Str("bob@x.io")

\* hook error field: null or a message
NoError == "null"

\* ---------------------------------------------------------------- profile
ProfileFields ==
    {"name", "title", "company", "email", "phone", "socials",
     "profilePictureId", "profilePicture"}
DocFields ==
    {"name", "company", "email", "title", "phone", "socials", "userId",
     "profilePictureId"}

defaultProfile ==
    [name |-> Str("New User"), title |-> Str(""), company |-> Str("Unknown"),
     email |-> Str(""), phone |-> Str(""), socials |-> Obj(NoSocials),
     profilePictureId |-> Undefined, profilePicture |-> Undefined]

\* { ...a, ...b } for a partial object b
Merge(a, b) == [f \in DOMAIN a |-> IF f \in DOMAIN b THEN b[f] ELSE a[f]]

\* JSON.parse of a cached object, read field by field as a profile.
ParseProfile(json) == [f \in ProfileFields |-> Get(json, f)]

EmptyDoc == [f \in DocFields |-> Null]

\* getFilePreview of lib/appwrite.ts: null for an id shorter than 8 characters,
\* else the preview URL of the file (the cache-busting timestamp is appended by
\* the caller and is not part of the model's URL).
getFilePreview(fileId) ==
    IF ~Truthy(fileId) \/ Len(fileId.s) < 8 THEN Null
    ELSE Str("preview:" \o fileId.s)

\* loadedProfile that takes socials as the document holds it, without parsing.
loadedProfileRawSocials(doc, uid) ==
    [name |-> OrElse(doc.name, OrElse(UserName(uid), Str(""))),
     email |-> OrElse(doc.email, OrElse(UserEmail(uid), Str(""))),
     title |-> OrElse(doc.title, Str("")),
     company |-> OrElse(doc.company, Str("")),
     phone |-> OrElse(doc.phone, Str("")),
     socials |-> OrElse(doc.socials, Obj(NoSocials)),
     profilePictureId |-> doc.profilePictureId,
     profilePicture |-> Undefined]

\* The profile a load builds from the fetched document (loadedProfile).
loadedProfile(doc, uid) ==
    [name |-> OrElse(doc.name, OrElse(UserName(uid), Str(""))),
     email |-> OrElse(doc.email, OrElse(UserEmail(uid), Str(""))),
     title |-> OrElse(doc.title, Str("")),
     company |-> OrElse(doc.company, Str("")),
     phone |-> OrElse(doc.phone, Str("")),
     socials |-> IF doc.socials.t = "string" THEN JsonParse(doc.socials.s)
                 ELSE OrElse(doc.socials, Obj(NoSocials)),
     profilePictureId |-> doc.profilePictureId,
     profilePicture |-> Undefined]

\* initialProfile without the name and the email of the user.
initialProfileAnonymous(uid) == defaultProfile

\* The profile a load falls back to when the document is not found.
initialProfile(uid) ==
    [defaultProfile EXCEPT !.name = OrElse(UserName(uid), Str("")),
                           !.email = OrElse(UserEmail(uid), Str("")),
                           !.company = OrElse(defaultProfile.company, Str(""))]

\* The create payload of a load that found no document.
initialPayload(uid) ==
    LET ip == initialProfile(uid) IN
    [name |-> Coalesce(ip.name, Coalesce(UserName(uid), Str("New User"))),
     company |-> Coalesce(ip.company, Str("Unknown")),
     email |-> Coalesce(ip.email, Coalesce(UserEmail(uid), Str(""))),
     title |-> ip.title,
     phone |-> ip.phone,
     socials |-> Str(JsonStringifyMap(OrElse(ip.socials, Obj(NoSocials)).o)),
     userId |-> Str(uid),
     profilePictureId |-> ip.profilePictureId]

\* The three permissions every create call of the hooks passes.
OwnerPermissions(uid) ==
    {<<"read", uid>>, <<"update", uid>>, <<"delete", uid>>}

\* ------------------------------------------------------ the remote backend
\* A document as the backend returns it: an attribute the payload left out
\* (undefined is dropped by the request's JSON encoding) reads as null.
CreatedDoc(payload) ==
    [f \in DocFields |-> IF payload[f].t = "undefined" THEN Null ELSE payload[f]]
\* An update replaces the attributes the payload carries and keeps the others.
UpdatedDoc(doc, payload) ==
    [f \in DocFields |->
        IF f \in DOMAIN payload /\ payload[f].t # "undefined" THEN payload[f]
        ELSE doc[f]]
\* The backend hands socials back as the stored JSON string or as a decoded
\* native object.
ReadDoc(doc, native) ==
    IF native /\ doc.socials.t = "string" /\ JsonParses(doc.socials.s)
    THEN [doc EXCEPT !.socials = JsonParse(doc.socials.s)]
    ELSE doc

NoDocEntry == [exists |-> FALSE, doc |-> EmptyDoc, perms |-> {}]
DocEntry(doc, perms) == [exists |-> TRUE, doc |-> doc, perms |-> perms]

\* local storage entries
NoItem == [kind |-> "none", val |-> [x \in {} |-> Null]]
JsonItem(v) == [kind |-> "json", val |-> v]
BadItem == [kind |-> "bad", val |-> [x \in {} |-> Null]]

ProfileKey(uid) == IF uid = NoUser THEN "profile" ELSE "profile_" \o uid
ProfileKeys == {ProfileKey(u) : u \in Users \cup {NoUser}}

\* A stored picture of at least 9 characters, as the backend's unique ids are.
OldFile == "file-old-0001"
NewFile == "file-new-0002"

\* A document that exists before the session starts.
SeedDoc(uid) ==
    [name |-> Str("Seed"), company |-> Str("Acme"), email |-> UserEmail(uid),
     title |-> Null, phone |-> Null, socials |-> Str(JsonStringifyMap(OneSocial)),
     userId |-> Str(uid), profilePictureId |-> Str(OldFile)]

VARIABLES
    user,          \* AuthProvider: the authenticated user id, or NoUser
    profile,       \* ProfileProvider state
    isLoading,
    error,
    loadingRef,
    mountedRef,
    localStorage,  \* key -> entry
    profilesDb,    \* remote profiles collection: user id -> entry
    files,         \* remote bucket: the ids of the stored files
    pProcs,        \* invocations of the profile hook's async functions
    hProcs,        \* invocations of the profile-picture handlers
    started        \* handler invocations so far

vars ==
    <<user, profile, isLoading, error, loadingRef, mountedRef, localStorage,
      profilesDb, files, pProcs, hProcs, started>>

VARIABLES
    qrUser,        \* QrSettingsProvider's useAppwrite(): its own user state
    authLoading,   \*   and its own loading flag
    qrSettings,    \* QrSettingsProvider state
    qrIsLoading,
    qrError,
    qrDb,          \* remote qr_settings collection: document id -> entry
    qProcs         \* invocations of loadQrSettings and updateQrSettings

qrVars == <<qrUser, authLoading, qrSettings, qrIsLoading, qrError, qrDb, qProcs>>

VARIABLES
    contacts,      \* ContactsProvider state
    cIsLoading,
    cError,
    contactsDb,    \* remote contacts collection: the stored documents
    cProcs         \* invocations of the contacts hook's async functions

contactsVars == <<contacts, cIsLoading, cError, contactsDb, cProcs>>

VARIABLES
    scanResult,    \* ScanPageContent state: the payload last detected, or null
    scanError,     \*   its error message, or null
    cameraPermission,
    isScanning,
    parsedData,    \* what the last call of parseQrData returned or threw
    route          \* the path the router shows

scanVars ==
    <<scanResult, scanError, cameraPermission, isScanning, parsedData, route>>

VARIABLES
    session,       \* backend: the user whose session the browser holds, or NoUser
    auth,          \* AuthProvider (useAuth) state: user, isLoading, authError
    appwrite,      \* useAppwrite state: user, loading, error, isLoggedIn
    aProcs         \* invocations of the two hooks' async functions

authVars == <<session, auth, appwrite, aProcs>>

\* The state of the providers and pages an action of the profile provider
\* leaves alone.
others == <<qrVars, contactsVars, scanVars, authVars>>
\* The profile provider's own state, its handlers, and the backend it uses,
\* with the pages that neither the QR nor the contacts provider touches.
vars_profile ==
    <<user, profile, isLoading, error, loadingRef, mountedRef, profilesDb, files,
      pProcs, hProcs, scanVars, authVars>>

\* A call to the backend as the hook issues it: the operation, the document or
\* file id, the payload and the permissions.
Call(op, id, payload, perms) ==
    [op |-> op, id |-> id, payload |-> payload, perms |-> perms]

\* An invocation of loadProfile or updateProfile: its position, the user id and
\* the profile of its closure, the merged profile and the payload it built, the
\* calls it has issued, and whether its fetch (loadProfile) or its update
\* (updateProfile) was answered as not found.
PProc(kind, pc, uid, prof, full, payload, calls) ==
    [kind |-> kind, pc |-> pc, uid |-> uid, prof |-> prof, full |-> full,
     payload |-> payload, calls |-> calls, notFound |-> FALSE]
\* What is kept of an invocation that has returned: all but its payload.
Settled(p, how) ==
    [PProc(p.kind, how, p.uid, p.prof, p.full, EmptyDoc, p.calls)
        EXCEPT !.notFound = p.notFound]

InFlight(p) == p.pc \notin {"done", "failed", "conflict", "threw"}

\* ------------------------------------------------------------------- Init
\* The providers have been constructed (useState/useRef initial values) and
\* their effects have not run yet.  The browser may hold a guest profile from
\* an earlier visit, and each user's remote document may or may not exist.
VARIABLE mounted

allVars == <<vars, mounted, qrVars, contactsVars, scanVars, authVars>>

InitProfile ==
    /\ user = NoUser
    /\ profile = defaultProfile
    /\ isLoading = TRUE
    /\ error = NoError
    /\ loadingRef = FALSE
    /\ mountedRef = TRUE
    /\ mounted = FALSE
    /\ pProcs = << >>
    /\ hProcs = << >>
    /\ \E seeded \in SUBSET {"userA"} :
          profilesDb =
              [u \in Users |->
                  IF u \in seeded
                  THEN DocEntry(SeedDoc(u), OwnerPermissions(u))
                  ELSE NoDocEntry]
    /\ files \in {{}, {OldFile}}

\* ------------------------------------------------------------ loadProfile
\* The synchronous head of loadProfile, called with appwriteUserId = u while
\* loadingRef.current = lref.
InvokeLoadProfile(u, lref) ==
    IF lref
    THEN /\ loadingRef' = lref
         /\ UNCHANGED <<profile, isLoading, error, pProcs>>
    ELSE IF u = NoUser
    THEN /\ profile' =
              IF localStorage["profile"].kind = "json"
              THEN ParseProfile(localStorage["profile"].val)
              ELSE defaultProfile
         /\ isLoading' = FALSE
         /\ loadingRef' = lref
         /\ UNCHANGED <<error, pProcs>>
    ELSE /\ loadingRef' = TRUE
         /\ isLoading' = TRUE
         /\ error' = NoError
         /\ pProcs' = Append(pProcs,
                PProc("loadProfile", "get", u, defaultProfile, defaultProfile,
                      EmptyDoc, <<Call("getDocument", u, EmptyDoc, {})>>))
         /\ UNCHANGED profile

\* The first run of the provider's effect: mountedRef.current = true; loadProfile().
Mount ==
    /\ ~mounted
    /\ mounted' = TRUE
    /\ mountedRef' = TRUE
    /\ InvokeLoadProfile(user, loadingRef)
    /\ UNCHANGED <<user, localStorage, profilesDb, files, hProcs, started, others>>

\* The effect runs again on the same provider (React re-mounts the effects of a
\* mounted tree: strict mode, fast refresh): its cleanup sets mountedRef and
\* loadingRef to false, then its body runs.
Remount ==
    /\ mounted
    /\ started < MaxOps
    /\ started' = started + 1
    /\ mountedRef' = TRUE
    /\ InvokeLoadProfile(user, FALSE)
    /\ UNCHANGED <<user, localStorage, profilesDb, files, hProcs, mounted, others>>

\* AuthProvider's setUser(u): appwriteUserId changes, loadProfile is a new
\* callback, and the effect's cleanup and body run.
SetUser(u) ==
    /\ mounted
    /\ u # user
    /\ started < MaxOps
    /\ started' = started + 1
    /\ user' = u
    /\ mountedRef' = TRUE
    /\ InvokeLoadProfile(u, FALSE)
    /\ UNCHANGED <<localStorage, profilesDb, files, hProcs, mounted, others>>

\* A finally block that resets loadingRef only.
LoadFinallyKeepsLoading == isLoading' = isLoading /\ loadingRef' = FALSE

\* The finally block of loadProfile.
LoadFinally == isLoading' = FALSE /\ loadingRef' = FALSE

\* setProfile(loadedProfile) and the cache write that end a successful load.
LoadSucceeds(i, lp) ==
    /\ profile' = lp
    /\ localStorage' =
          [localStorage EXCEPT ![ProfileKey(pProcs[i].uid)] =
              JsonItem(JsonStringify([lp EXCEPT !.profilePicture = Undefined]))]
    /\ LoadFinally
    /\ pProcs' = [pProcs EXCEPT ![i] = Settled(@, "done")]
    /\ UNCHANGED error

\* getDocument answers with the document.
LoadFetched(i) ==
    /\ i \in DOMAIN pProcs
    /\ pProcs[i].kind = "loadProfile" /\ pProcs[i].pc = "get"
    /\ profilesDb[pProcs[i].uid].exists
    /\ \E native \in BOOLEAN :
         LET p == pProcs[i]
             doc == ReadDoc(profilesDb[p.uid].doc, native)
             lp == loadedProfile(doc, p.uid)
         IN  IF doc.socials.t = "string" /\ ~JsonParses(doc.socials.s)
             THEN \* JSON.parse throws: the catch's else branch
                  /\ error' = "Failed to load profile from database."
                  /\ LoadFinally
                  /\ pProcs' = [pProcs EXCEPT ![i] = Settled(@, "failed")]
                  /\ UNCHANGED <<profile, localStorage>>
             ELSE IF Truthy(doc.profilePictureId) /\ Len(doc.profilePictureId.s) > 8
             THEN /\ pProcs' = [pProcs EXCEPT ![i] =
                        [@ EXCEPT !.pc = "getFile", !.prof = lp,
                                  !.calls = Append(@, Call("getFile", doc.profilePictureId.s,
                                                          EmptyDoc, {}))]]
                  /\ UNCHANGED <<profile, localStorage, isLoading, loadingRef, error>>
             ELSE LoadSucceeds(i, lp)
    /\ UNCHANGED <<user, mountedRef, profilesDb, files, hProcs, started, mounted, others>>

\* getDocument fails as not found: defaults, cache, and the create call.
LoadNotFound(i) ==
    /\ i \in DOMAIN pProcs
    /\ pProcs[i].kind = "loadProfile" /\ pProcs[i].pc = "get"
    /\ ~profilesDb[pProcs[i].uid].exists
    /\ LET uid == pProcs[i].uid IN
         /\ profile' = initialProfile(uid)
         /\ localStorage' =
               [localStorage EXCEPT ![ProfileKey(uid)] =
                   JsonItem(JsonStringify(initialProfile(uid)))]
         /\ pProcs' = [pProcs EXCEPT ![i] =
               [@ EXCEPT !.pc = "create", !.payload = initialPayload(uid),
                         !.notFound = TRUE,
                         !.calls = Append(@, Call("createDocumentWithId", uid,
                                                  initialPayload(uid),
                                                  OwnerPermissions(uid)))]]
    /\ UNCHANGED <<user, isLoading, error, loadingRef, mountedRef, profilesDb,
                   files, hProcs, started, mounted, others>>

\* getDocument fails in any other way.
LoadFetchFailed(i) ==
    /\ i \in DOMAIN pProcs
    /\ pProcs[i].kind = "loadProfile" /\ pProcs[i].pc = "get"
    /\ error' = "Failed to load profile from database."
    /\ LoadFinally
    /\ pProcs' = [pProcs EXCEPT ![i] = Settled(@, "failed")]
    /\ UNCHANGED <<user, profile, mountedRef, localStorage, profilesDb, files,
                   hProcs, started, mounted, others>>

\* createDocumentWithId of the load answers: the document is created when none
\* exists and the backend does not fail; else the call throws, with a conflict
\* (409) when the document exists already, or with any other failure.  The
\* catch block does not look at the code.
LoadCreateReturns(i) ==
    /\ i \in DOMAIN pProcs
    /\ pProcs[i].kind = "loadProfile" /\ pProcs[i].pc = "create"
    /\ LET p == pProcs[i] IN
         \/ /\ ~profilesDb[p.uid].exists
            /\ profilesDb' = [profilesDb EXCEPT ![p.uid] =
                   DocEntry(CreatedDoc(p.payload), p.calls[Len(p.calls)].perms)]
            /\ pProcs' = [pProcs EXCEPT ![i] = Settled(@, "done")]
            /\ UNCHANGED error
         \/ /\ profilesDb[p.uid].exists
            /\ error' = "Failed to initialize profile in database."
            /\ pProcs' = [pProcs EXCEPT ![i] = Settled(@, "conflict")]
            /\ UNCHANGED profilesDb
         \/ /\ error' = "Failed to initialize profile in database."
            /\ pProcs' = [pProcs EXCEPT ![i] = Settled(@, "failed")]
            /\ UNCHANGED profilesDb
    /\ LoadFinally
    /\ UNCHANGED <<user, profile, mountedRef, localStorage, files, hProcs, started, mounted,
                   others>>

\* storageService.getFile(bucket, id, true) of the load answers.
LoadFileChecked(i) ==
    /\ i \in DOMAIN pProcs
    /\ pProcs[i].kind = "loadProfile" /\ pProcs[i].pc = "getFile"
    /\ LET p == pProcs[i]
           url == getFilePreview(p.prof.profilePictureId)
       IN
         \/ \* the file exists: the preview URL is set before the state is
            /\ p.prof.profilePictureId.s \in files
            /\ LoadSucceeds(i, IF Truthy(url)
                               THEN [p.prof EXCEPT !.profilePicture = url]
                               ELSE p.prof)
         \/ \* the file is gone: clear the id and update the document
            /\ p.prof.profilePictureId.s \notin files
            /\ pProcs' = [pProcs EXCEPT ![i] =
                  [@ EXCEPT !.pc = "clearPic",
                            !.prof = [p.prof EXCEPT !.profilePictureId = Undefined],
                            !.calls = Append(@, Call("updateDocument", p.uid,
                                  [profilePictureId |-> Null], {}))]]
            /\ UNCHANGED <<profile, localStorage, isLoading, loadingRef, error>>
         \/ \* getFile throws: caught, the load goes on
            LoadSucceeds(i, p.prof)
    /\ UNCHANGED <<user, mountedRef, profilesDb, files, hProcs, started, mounted, others>>

\* updateDocument({profilePictureId: null}) of the load answers; a failure is
\* caught and the load goes on.
LoadPictureCleared(i) ==
    /\ i \in DOMAIN pProcs
    /\ pProcs[i].kind = "loadProfile" /\ pProcs[i].pc = "clearPic"
    /\ LET p == pProcs[i] IN
         \/ /\ profilesDb[p.uid].exists
            /\ profilesDb' = [profilesDb EXCEPT ![p.uid].doc =
                   UpdatedDoc(@, [profilePictureId |-> Null])]
         \/ UNCHANGED profilesDb
    /\ LoadSucceeds(i, pProcs[i].prof)
    /\ UNCHANGED <<user, mountedRef, files, hProcs, started, mounted, others>>

\* ---------------------------------------------------------- updateProfile
\* The partial profiles the model passes to updateProfile.
ProfileUpdates ==
    {[name |-> Str("Ann")],
     [socials |-> Obj(NoSocials)],
     [profilePictureId |-> Undefined, profilePicture |-> Undefined],
     [profilePictureId |-> Null],
     [profilePictureId |-> Str("")]}

\* The payload with profilePictureId passed on as the merged profile holds it.
updatePayloadPassesIdOn(full, uid) ==
    [name |-> Coalesce(full.name, Coalesce(UserName(uid), Str("New User"))),
     company |-> Coalesce(full.company, Str("Unknown")),
     email |-> Coalesce(full.email, Coalesce(UserEmail(uid), Str(""))),
     title |-> full.title,
     phone |-> full.phone,
     socials |-> Str(JsonStringifyMap(OrElse(full.socials, Obj(NoSocials)).o)),
     userId |-> Str(uid),
     profilePictureId |-> full.profilePictureId]

\* The payload updateProfile builds from the merged profile.
updatePayload(full, uid) ==
    [name |-> Coalesce(full.name, Coalesce(UserName(uid), Str("New User"))),
     company |-> Coalesce(full.company, Str("Unknown")),
     email |-> Coalesce(full.email, Coalesce(UserEmail(uid), Str(""))),
     title |-> full.title,
     phone |-> full.phone,
     socials |-> Str(JsonStringifyMap(OrElse(full.socials, Obj(NoSocials)).o)),
     userId |-> Str(uid),
     profilePictureId |->
         IF full.profilePictureId.t \in {"null", "undefined"}
            \/ full.profilePictureId = Str("")
         THEN Null
         ELSE full.profilePictureId]

\* The profile updateProfile builds from the document an update or create returns.
newProfileState(doc, full) ==
    [name |-> doc.name, title |-> doc.title, company |-> doc.company,
     email |-> doc.email, phone |-> doc.phone,
     socials |-> IF doc.socials.t = "string" THEN JsonParse(doc.socials.s)
                 ELSE OrElse(doc.socials, Obj(NoSocials)),
     profilePictureId |-> doc.profilePictureId,
     profilePicture |-> full.profilePicture]

\* updateProfile that applies the merged profile to the state and the cache
\* before its remote calls, also with a user.
InvokeUpdateProfileOptimistic(data, prof, u) ==
    /\ profile' = Merge(prof, data)
    /\ localStorage' =
          [localStorage EXCEPT ![ProfileKey(u)] =
              JsonItem(JsonStringify(Merge(prof, data)))]
    /\ IF u = NoUser
       THEN /\ error' = "User not authenticated. Profile not saved."
            /\ pProcs' = Append(pProcs,
                   Settled(PProc("updateProfile", "done", u, prof, Merge(prof, data),
                                 EmptyDoc, << >>), "done"))
            /\ UNCHANGED isLoading
       ELSE /\ isLoading' = TRUE
            /\ error' = NoError
            /\ pProcs' = Append(pProcs,
                   PProc("updateProfile", "preGet", u, prof, Merge(prof, data),
                         EmptyDoc, <<Call("getDocument", u, EmptyDoc, {})>>))

\* The synchronous head of updateProfile(data), called from a render whose
\* profile is prof and whose appwriteUserId is u.
InvokeUpdateProfile(data, prof, u) ==
    IF u = NoUser
    THEN /\ error' = "User not authenticated. Profile not saved."
         /\ profile' = Merge(prof, data)
         /\ localStorage' =
               [localStorage EXCEPT !["profile"] =
                   JsonItem(JsonStringify(Merge(prof, data)))]
         /\ pProcs' = Append(pProcs,
                Settled(PProc("updateProfile", "done", u, prof, Merge(prof, data),
                              EmptyDoc, << >>), "done"))
         /\ UNCHANGED isLoading
    ELSE /\ isLoading' = TRUE
         /\ error' = NoError
         /\ pProcs' = Append(pProcs,
                PProc("updateProfile", "preGet", u, prof, Merge(prof, data),
                      EmptyDoc, <<Call("getDocument", u, EmptyDoc, {})>>))
         /\ UNCHANGED <<profile, localStorage>>

\* A component calls updateProfile(data).
UpdateProfile(data) ==
    /\ mounted
    /\ started < MaxOps
    /\ started' = started + 1
    /\ InvokeUpdateProfile(data, profile, user)
    /\ UNCHANGED <<user, loadingRef, mountedRef, profilesDb, files, hProcs, mounted,
                   others>>

\* The getDocument that precedes the update answers (its result and its failure
\* are both ignored); the payload is built and updateDocument is issued.
UpdatePreGetReturns(i) ==
    /\ i \in DOMAIN pProcs
    /\ pProcs[i].kind = "updateProfile" /\ pProcs[i].pc = "preGet"
    /\ LET p == pProcs[i]
           pl == updatePayload(p.full, p.uid)
       IN pProcs' = [pProcs EXCEPT ![i] =
              [@ EXCEPT !.pc = "update", !.payload = pl,
                        !.calls = Append(@, Call("updateDocument", p.uid, pl, {}))]]
    /\ UNCHANGED <<user, profile, isLoading, error, loadingRef, mountedRef,
                   localStorage, profilesDb, files, hProcs, started, mounted,
                   others>>

\* State and cache are set from the document an update or create returned; the
\* picture URL is generated next when wanted, else the finally block runs.
UpdateApplied(i, doc, wantUrl) ==
    LET p == pProcs[i]
        nps == newProfileState(doc, p.full)
    IN /\ profile' = nps
       /\ localStorage' =
             [localStorage EXCEPT ![ProfileKey(p.uid)] =
                 JsonItem(JsonStringify([nps EXCEPT !.profilePicture = Undefined]))]
       /\ IF wantUrl
          THEN /\ pProcs' = [pProcs EXCEPT ![i] =
                     [@ EXCEPT !.pc = "genUrl", !.prof = nps,
                         !.calls = Append(@, Call("getFile", doc.profilePictureId.s,
                                                  EmptyDoc, {}))]]
               /\ UNCHANGED isLoading
          ELSE /\ pProcs' = [pProcs EXCEPT ![i] = Settled(@, "done")]
               /\ isLoading' = FALSE
       /\ UNCHANGED error

\* updateDocument answers with the updated document.
UpdateSucceeds(i) ==
    /\ i \in DOMAIN pProcs
    /\ pProcs[i].kind = "updateProfile" /\ pProcs[i].pc = "update"
    /\ profilesDb[pProcs[i].uid].exists
    /\ \E native \in BOOLEAN :
         LET p == pProcs[i]
             stored == UpdatedDoc(profilesDb[p.uid].doc, p.payload)
             doc == ReadDoc(stored, native)
         IN /\ profilesDb' = [profilesDb EXCEPT ![p.uid].doc = stored]
            /\ UpdateApplied(i, doc,
                   Truthy(doc.profilePictureId)
                   /\ doc.profilePictureId # p.prof.profilePictureId)
    /\ UNCHANGED <<user, loadingRef, mountedRef, files, hProcs, started, mounted, others>>

\* The create after a not-found update, issued without permissions.
UpdateNotFoundNoPermissions(i) ==
    /\ i \in DOMAIN pProcs
    /\ pProcs[i].kind = "updateProfile" /\ pProcs[i].pc = "update"
    /\ ~profilesDb[pProcs[i].uid].exists
    /\ LET p == pProcs[i] IN
         pProcs' = [pProcs EXCEPT ![i] =
             [@ EXCEPT !.pc = "create", !.notFound = TRUE,
                       !.calls = Append(@, Call("createDocumentWithId", p.uid,
                                                p.payload, {}))]]
    /\ UNCHANGED <<user, profile, isLoading, error, loadingRef, mountedRef,
                   localStorage, profilesDb, files, hProcs, started, mounted,
                   others>>

\* updateDocument fails as not found: createDocumentWithId is issued with the
\* same payload.
UpdateNotFound(i) ==
    /\ i \in DOMAIN pProcs
    /\ pProcs[i].kind = "updateProfile" /\ pProcs[i].pc = "update"
    /\ ~profilesDb[pProcs[i].uid].exists
    /\ LET p == pProcs[i] IN
         pProcs' = [pProcs EXCEPT ![i] =
             [@ EXCEPT !.pc = "create", !.notFound = TRUE,
                       !.calls = Append(@, Call("createDocumentWithId", p.uid,
                                                p.payload, OwnerPermissions(p.uid)))]]
    /\ UNCHANGED <<user, profile, isLoading, error, loadingRef, mountedRef,
                   localStorage, profilesDb, files, hProcs, started, mounted,
                   others>>

\* updateDocument fails in any other way.
UpdateFails(i) ==
    /\ i \in DOMAIN pProcs
    /\ pProcs[i].kind = "updateProfile" /\ pProcs[i].pc = "update"
    /\ error' = "Failed to save profile to database (update failed)."
    /\ isLoading' = FALSE
    /\ pProcs' = [pProcs EXCEPT ![i] = Settled(@, "failed")]
    /\ UNCHANGED <<user, profile, loadingRef, mountedRef, localStorage,
                   profilesDb, files, hProcs, started, mounted, others>>

\* createDocumentWithId of the update answers with the created document.
UpdateCreateSucceeds(i) ==
    /\ i \in DOMAIN pProcs
    /\ pProcs[i].kind = "updateProfile" /\ pProcs[i].pc = "create"
    /\ ~profilesDb[pProcs[i].uid].exists
    /\ \E native \in BOOLEAN :
         LET p == pProcs[i]
             stored == CreatedDoc(p.payload)
             doc == ReadDoc(stored, native)
         IN /\ profilesDb' = [profilesDb EXCEPT ![p.uid] =
                   DocEntry(stored, p.calls[Len(p.calls)].perms)]
            /\ UpdateApplied(i, doc, Truthy(doc.profilePictureId))
    /\ UNCHANGED <<user, loadingRef, mountedRef, files, hProcs, started, mounted, others>>

\* createDocumentWithId of the update throws (conflict or any other failure).
UpdateCreateFails(i) ==
    /\ i \in DOMAIN pProcs
    /\ pProcs[i].kind = "updateProfile" /\ pProcs[i].pc = "create"
    /\ error' = "Failed to save profile to database (creation failed)."
    /\ isLoading' = FALSE
    /\ pProcs' = [pProcs EXCEPT ![i] = Settled(@, "failed")]
    /\ UNCHANGED <<user, profile, loadingRef, mountedRef, localStorage,
                   profilesDb, files, hProcs, started, mounted, others>>

\* generateProfilePictureUrl: getFile answers; when the file exists and a
\* preview URL is derived, setProfile(prev => ({...prev, profilePicture: url})).
UpdateUrlGenerated(i) ==
    /\ i \in DOMAIN pProcs
    /\ pProcs[i].kind = "updateProfile" /\ pProcs[i].pc = "genUrl"
    /\ LET p == pProcs[i]
           url == getFilePreview(p.prof.profilePictureId)
       IN \/ /\ p.prof.profilePictureId.s \in files
             /\ profile' = IF Truthy(url)
                           THEN [profile EXCEPT !.profilePicture = url]
                           ELSE profile
          \/ \* the file is not there, or getFile throws: no URL
             UNCHANGED profile
    /\ isLoading' = FALSE
    /\ pProcs' = [pProcs EXCEPT ![i] = Settled(@, "done")]
    /\ UNCHANGED <<user, error, loadingRef, mountedRef, localStorage, profilesDb,
                   files, hProcs, started, mounted, others>>

\* ------------------------------------------- profile-picture handlers
\* A File chosen in the file input: its MIME type and its size in bytes.
allowedTypes == {"image/jpeg", "image/png", "image/gif", "image/webp"}
maxSize == 5 * 1024 * 1024
PickedFiles ==
    {[type |-> "image/png", size |-> 2048],
     [type |-> "image/jpeg", size |-> maxSize],
     [type |-> "application/pdf", size |-> 2048],
     [type |-> "image/png", size |-> maxSize + 1]}
NoFile == [type |-> "", size |-> 0]

\* An invocation of handleProfilePictureUpload or removeProfilePicture: the
\* profile and user id of the render it was called from, the calls it has made
\* to the storage service, and the updateProfile invocation it started (0: none).
HProc(kind, pc, uid, prof, file, calls, upd) ==
    [kind |-> kind, pc |-> pc, uid |-> uid, prof |-> prof, file |-> file,
     calls |-> calls, upd |-> upd]

\* The handler calls updateProfile(data) and awaits it: the call is invocation
\* Len(pProcs) + 1 of the hook; without a user it returns at once.
HandlerUpdates(h, data) ==
    LET p == hProcs[h] IN
    /\ InvokeUpdateProfile(data, p.prof, p.uid)
    /\ hProcs' = [hProcs EXCEPT ![h] =
          [@ EXCEPT !.pc = IF p.uid = NoUser THEN "done" ELSE "awaitUpdate",
                    !.upd = Len(pProcs) + 1]]

\* The handler's catch block: a failure toast, no further call.
HandlerFails(h) ==
    hProcs' = [hProcs EXCEPT ![h] = [@ EXCEPT !.pc = "failed"]]

\* uploadProfilePicture(file), up to its first await: the checks of the user,
\* the MIME type and the size, then storageService.uploadFile.
InvokeUploadProfilePicture(h, calls) ==
    LET p == hProcs[h] IN
    IF p.uid = NoUser
    THEN /\ error' = "User not authenticated. Cannot upload profile picture."
         /\ hProcs' = [hProcs EXCEPT ![h] = [@ EXCEPT !.pc = "failed", !.calls = calls]]
    ELSE IF p.file.type \notin allowedTypes
    THEN /\ error' = "Invalid file type. Allowed types: jpeg, png, gif, webp"
         /\ hProcs' = [hProcs EXCEPT ![h] = [@ EXCEPT !.pc = "failed", !.calls = calls]]
    ELSE IF p.file.size > maxSize
    THEN /\ error' = "Profile picture must be less than 5MB"
         /\ hProcs' = [hProcs EXCEPT ![h] = [@ EXCEPT !.pc = "failed", !.calls = calls]]
    ELSE /\ hProcs' = [hProcs EXCEPT ![h] =
               [@ EXCEPT !.pc = "upload",
                         !.calls = Append(calls, Call("uploadFile", "", EmptyDoc,
                                                      OwnerPermissions(p.uid)))]]
         /\ UNCHANGED error

\* Whether a handler deletes the stored picture first.
HasStoredPicture(prof) ==
    Truthy(prof.profilePictureId) /\ Len(prof.profilePictureId.s) > 8

\* handleProfilePictureUpload(event) for a chosen file.
HandleProfilePictureUpload(file) ==
    /\ mounted
    /\ started < MaxOps
    /\ started' = started + 1
    /\ LET h == Len(hProcs) + 1
           new == HProc("upload", "start", user, profile, file, << >>, 0)
       IN IF HasStoredPicture(profile)
          THEN /\ hProcs' = Append(hProcs,
                     [new EXCEPT !.pc = "deletePrevious",
                         !.calls = <<Call("deleteFile", profile.profilePictureId.s,
                                          EmptyDoc, {})>>])
               /\ UNCHANGED error
          ELSE \* straight on to uploadProfilePicture
               IF user = NoUser
               THEN /\ error' = "User not authenticated. Cannot upload profile picture."
                    /\ hProcs' = Append(hProcs, [new EXCEPT !.pc = "failed"])
               ELSE IF file.type \notin allowedTypes
               THEN /\ error' = "Invalid file type. Allowed types: jpeg, png, gif, webp"
                    /\ hProcs' = Append(hProcs, [new EXCEPT !.pc = "failed"])
               ELSE IF file.size > maxSize
               THEN /\ error' = "Profile picture must be less than 5MB"
                    /\ hProcs' = Append(hProcs, [new EXCEPT !.pc = "failed"])
               ELSE /\ hProcs' = Append(hProcs,
                          [new EXCEPT !.pc = "upload",
                              !.calls = <<Call("uploadFile", "", EmptyDoc,
                                               OwnerPermissions(user))>>])
                    /\ UNCHANGED error
    /\ UNCHANGED <<user, profile, isLoading, loadingRef, mountedRef, localStorage,
                   profilesDb, files, pProcs, mounted, others>>

\* storageService.deleteFile(bucket, id, true) answers: the file is deleted, or
\* it was not there (404, suppressed), or the call throws.
DeleteFileAnswers(id) ==
    {IF id \in files THEN "deleted" ELSE "notFound", "error"}

\* The deletion of the previous picture answers in the upload handler.
UploadPreviousDeleted(h) ==
    /\ h \in DOMAIN hProcs
    /\ hProcs[h].kind = "upload" /\ hProcs[h].pc = "deletePrevious"
    /\ \E answer \in DeleteFileAnswers(hProcs[h].prof.profilePictureId.s) :
         IF answer = "error"
         THEN /\ HandlerFails(h)
              /\ UNCHANGED <<files, error>>
         ELSE /\ files' = files \ {hProcs[h].prof.profilePictureId.s}
              /\ InvokeUploadProfilePicture(h, hProcs[h].calls)
    /\ UNCHANGED <<user, profile, isLoading, loadingRef, mountedRef, localStorage,
                   profilesDb, pProcs, started, mounted, others>>

\* storageService.uploadFile answers: the new file's id, or a failure that
\* uploadProfilePicture turns into an error string and null.
UploadReturns(h) ==
    /\ h \in DOMAIN hProcs
    /\ hProcs[h].kind = "upload" /\ hProcs[h].pc = "upload"
    /\ \/ /\ NewFile \notin files
          /\ files' = files \cup {NewFile}
          /\ hProcs' = [hProcs EXCEPT ![h] =
                [@ EXCEPT !.pc = "verify",
                          !.calls = Append(@, Call("getFile", NewFile, EmptyDoc, {}))]]
          /\ UNCHANGED error
       \/ /\ error' \in {"Authentication error. Please sign in again.",
                         "File is too large. Maximum size is 5MB.",
                         "Failed to upload profile picture: Unknown error"}
          /\ HandlerFails(h)
          /\ UNCHANGED files
    /\ UNCHANGED <<user, profile, isLoading, loadingRef, mountedRef, localStorage,
                   profilesDb, pProcs, started, mounted, others>>

\* The verifying getFile answers (a failure is only logged); the handler then
\* calls updateProfile({...profile, profilePictureId: fileId}).
UploadVerified(h) ==
    /\ h \in DOMAIN hProcs
    /\ hProcs[h].kind = "upload" /\ hProcs[h].pc = "verify"
    /\ HandlerUpdates(h, [profilePictureId |-> Str(NewFile)])
    /\ UNCHANGED <<user, loadingRef, mountedRef, profilesDb, files, started, mounted,
                   others>>

\* removeProfilePicture().
RemoveProfilePicture ==
    /\ mounted
    /\ started < MaxOps
    /\ started' = started + 1
    /\ LET new == HProc("remove", "start", user, profile, NoFile, << >>, 0)
       IN IF HasStoredPicture(profile)
          THEN /\ hProcs' = Append(hProcs,
                     [new EXCEPT !.pc = "delete",
                         !.calls = <<Call("deleteFile", profile.profilePictureId.s,
                                          EmptyDoc, {})>>])
               /\ UNCHANGED <<profile, isLoading, error, localStorage, pProcs>>
          ELSE /\ InvokeUpdateProfile(
                     [profilePictureId |-> Undefined, profilePicture |-> Undefined],
                     profile, user)
               /\ hProcs' = Append(hProcs,
                     [new EXCEPT !.pc = IF user = NoUser THEN "done" ELSE "awaitUpdate",
                                 !.upd = Len(pProcs) + 1])
    /\ UNCHANGED <<user, loadingRef, mountedRef, profilesDb, files, mounted, others>>

\* The deletion answers in removeProfilePicture: after a deletion or a
\* suppressed not-found the handler calls updateProfile; any other failure is
\* thrown into the handler's catch block.
RemoveFileDeleted(h) ==
    /\ h \in DOMAIN hProcs
    /\ hProcs[h].kind = "remove" /\ hProcs[h].pc = "delete"
    /\ \E answer \in DeleteFileAnswers(hProcs[h].prof.profilePictureId.s) :
         IF answer = "error"
         THEN /\ HandlerFails(h)
              /\ UNCHANGED <<files, profile, isLoading, error, localStorage, pProcs>>
         ELSE /\ files' = files \ {hProcs[h].prof.profilePictureId.s}
              /\ HandlerUpdates(h,
                    [profilePictureId |-> Undefined, profilePicture |-> Undefined])
    /\ UNCHANGED <<user, loadingRef, mountedRef, profilesDb, started, mounted, others>>

\* ------------------------------------------------------ QR settings hook
QrFields ==
    {"bgColor", "fgColor", "pageBackgroundColor", "cardBackgroundColor",
     "textColor", "showName", "showTitle", "showCompany", "showContact",
     "showSocials", "showProfilePicture", "layoutStyle", "qrSize",
     "borderRadius", "cardPadding", "fontFamily", "fontSize"}

defaultQrSettings ==
    [bgColor |-> "#FFFFFF", fgColor |-> "#000000",
     pageBackgroundColor |-> "#FFFFFF", cardBackgroundColor |-> "#FFFFFF",
     textColor |-> "#000000", showName |-> TRUE, showTitle |-> TRUE,
     showCompany |-> TRUE, showContact |-> TRUE, showSocials |-> TRUE,
     showProfilePicture |-> TRUE, layoutStyle |-> "card", qrSize |-> 220,
     borderRadius |-> 12, cardPadding |-> 24, fontFamily |-> "Inter",
     fontSize |-> 14]

QrKey(uid) == IF uid = NoUser THEN "qrSettings_guest" ELSE "qrSettings_" \o uid
QrKeys == {QrKey(u) : u \in Users \cup {NoUser}}

\* The payload both loadQrSettings and updateQrSettings build: the seventeen
\* settings and userId.
qrPayload(settings, uid) ==
    [f \in QrFields \cup {"userId"} |-> IF f = "userId" THEN uid ELSE settings[f]]
\* The settings a load reads from a document (loadedSettings).
loadedSettings(document) == [f \in QrFields |-> document[f]]

NoQrEntry ==
    [exists |-> FALSE, doc |-> qrPayload(defaultQrSettings, NoUser), perms |-> {}]

\* Settings a user saved in an earlier session.
SeedQrSettings == [defaultQrSettings EXCEPT !.layoutStyle = "modern"]

\* The partial settings the model passes to updateQrSettings.
QrUpdates == {[bgColor |-> "#FF0000"], [showName |-> FALSE]}

\* An invocation of loadQrSettings or updateQrSettings: the user id and the
\* savedSettings string of its closure, the settings it saves, its calls, and
\* whether its last call was answered as not found.
QProc(kind, pc, uid, saved, settings, calls) ==
    [kind |-> kind, pc |-> pc, uid |-> uid, saved |-> saved,
     settings |-> settings, calls |-> calls, notFound |-> FALSE]
QSettled(p, how) ==
    [QProc(p.kind, how, p.uid, NoItem, defaultQrSettings, p.calls)
        EXCEPT !.notFound = p.notFound]

QCall(op, id, payload, perms) ==
    [op |-> op, id |-> id, payload |-> payload, perms |-> perms]
NoQrPayload == qrPayload(defaultQrSettings, NoUser)

InitQr ==
    /\ qrUser = NoUser
    /\ authLoading = TRUE
    /\ qrSettings = defaultQrSettings
    /\ qrIsLoading = TRUE
    /\ qrError = NoError
    /\ qProcs = << >>
    /\ \E seeded \in SUBSET {"userA"} :
          qrDb = [u \in Users |->
                    IF u \in seeded
                    THEN [exists |-> TRUE, doc |-> qrPayload(SeedQrSettings, u),
                          perms |-> OwnerPermissions(u)]
                    ELSE NoQrEntry]

\* The synchronous head of loadQrSettings, called with appwriteUserId = u and
\* authLoading = al.
InvokeLoadQrSettings(u, al) ==
    IF al
    THEN /\ qrIsLoading' = TRUE
         /\ UNCHANGED <<qrSettings, qrError, qProcs>>
    ELSE IF u = NoUser
    THEN /\ qrSettings' =
              IF localStorage[QrKey(NoUser)].kind = "json"
              THEN Merge(defaultQrSettings, localStorage[QrKey(NoUser)].val)
              ELSE defaultQrSettings
         /\ qrIsLoading' = FALSE
         /\ UNCHANGED <<qrError, qProcs>>
    ELSE /\ qrIsLoading' = TRUE
         /\ qrError' = NoError
         /\ qrSettings' =
              IF localStorage[QrKey(u)].kind = "json"
              THEN Merge(defaultQrSettings, localStorage[QrKey(u)].val)
              ELSE qrSettings
         /\ qProcs' = Append(qProcs,
                QProc("loadQr", "list", u, localStorage[QrKey(u)],
                      defaultQrSettings,
                      <<QCall("listDocuments", u, NoQrPayload, {})>>))

\* useAppwrite's checkAuthStatus() is called again: setLoading(true), and the
\* effect runs loadQrSettings, which only keeps the loading flag up.
QrCheckAuthStatus ==
    /\ mounted
    /\ ~authLoading
    /\ started < MaxOps
    /\ authLoading' = TRUE
    /\ InvokeLoadQrSettings(qrUser, TRUE)
    /\ UNCHANGED <<qrUser, qrDb, localStorage, started, mounted, vars_profile,
                   contactsVars>>

\* checkAuthStatus answers with the session's user (or none): setUser,
\* setLoading(false), and the effect runs loadQrSettings.
QrAuthResolved(u) ==
    /\ mounted
    /\ authLoading
    /\ started < MaxOps
    /\ started' = started + 1
    /\ qrUser' = u
    /\ authLoading' = FALSE
    /\ InvokeLoadQrSettings(u, FALSE)
    /\ UNCHANGED <<qrDb, localStorage, mounted, vars_profile, contactsVars>>

\* createQrSettingsDocument(), up to its await: the settings of the closure's
\* savedSettings (or the defaults) become state and cache, and the create call
\* is issued.
QrCreateIssued(i) ==
    LET p == qProcs[i]
        currentSettings ==
            IF p.saved.kind = "json" THEN Merge(defaultQrSettings, p.saved.val)
            ELSE defaultQrSettings
    IN /\ qrSettings' = currentSettings
       /\ localStorage' =
             [localStorage EXCEPT ![QrKey(p.uid)] = JsonItem(currentSettings)]
       /\ qProcs' = [qProcs EXCEPT ![i] =
             [@ EXCEPT !.pc = "create", !.settings = currentSettings,
                 !.calls = Append(@, QCall("createDocumentWithId", p.uid,
                                           qrPayload(currentSettings, p.uid),
                                           OwnerPermissions(p.uid)))]]

\* JSON.parse(savedSettings) throws inside loadQrSettings' catch block: the
\* error string is set, the finally block runs and the exception leaves the
\* function.
QrLoadThrows(i) ==
    /\ qrError' = "Failed to load QR settings from database."
    /\ qrIsLoading' = FALSE
    /\ qProcs' = [qProcs EXCEPT ![i] = QSettled(@, "threw")]
    /\ UNCHANGED <<qrSettings, localStorage>>

\* listDocuments of the load answers with the user's documents.
LoadQrListed(i) ==
    /\ i \in DOMAIN qProcs
    /\ qProcs[i].kind = "loadQr" /\ qProcs[i].pc = "list"
    /\ LET p == qProcs[i] IN
         IF ~qrDb[p.uid].exists
         THEN IF p.saved.kind = "bad"
              THEN QrLoadThrows(i)
              ELSE QrCreateIssued(i) /\ UNCHANGED <<qrIsLoading, qrError>>
         ELSE /\ qrSettings' = loadedSettings(qrDb[p.uid].doc)
              /\ localStorage' =
                    [localStorage EXCEPT ![QrKey(p.uid)] =
                        JsonItem(loadedSettings(qrDb[p.uid].doc))]
              /\ qrIsLoading' = FALSE
              /\ qProcs' = [qProcs EXCEPT ![i] = QSettled(@, "done")]
              /\ UNCHANGED qrError
    /\ UNCHANGED <<qrUser, authLoading, qrDb, started, mounted, vars_profile,
                   contactsVars>>

\* listDocuments of the load throws an error with the given code.
LoadQrListFailed(i, code) ==
    /\ i \in DOMAIN qProcs
    /\ qProcs[i].kind = "loadQr" /\ qProcs[i].pc = "list"
    /\ LET p == qProcs[i] IN
         IF p.saved.kind = "bad"
         THEN QrLoadThrows(i)
         ELSE /\ qrError' = "Failed to load QR settings from database."
              /\ IF code = 404
                 THEN QrCreateIssued(i) /\ UNCHANGED qrIsLoading
                 ELSE /\ qrSettings' =
                           IF p.saved.kind = "json"
                           THEN Merge(defaultQrSettings, p.saved.val)
                           ELSE defaultQrSettings
                      /\ qrIsLoading' = FALSE
                      /\ qProcs' = [qProcs EXCEPT ![i] = QSettled(@, "failed")]
                      /\ UNCHANGED localStorage
    /\ UNCHANGED <<qrUser, authLoading, qrDb, started, mounted, vars_profile,
                   contactsVars>>

\* createDocumentWithId of the load answers: created, or a conflict (409, not
\* reported), or any other failure (reported).
LoadQrCreateReturns(i) ==
    /\ i \in DOMAIN qProcs
    /\ qProcs[i].kind = "loadQr" /\ qProcs[i].pc = "create"
    /\ LET p == qProcs[i]
           call == p.calls[Len(p.calls)]
       IN \/ /\ ~qrDb[p.uid].exists
             /\ qrDb' = [qrDb EXCEPT ![p.uid] =
                   [exists |-> TRUE, doc |-> call.payload, perms |-> call.perms]]
             /\ qProcs' = [qProcs EXCEPT ![i] = QSettled(@, "done")]
             /\ UNCHANGED qrError
          \/ /\ qrDb[p.uid].exists
             /\ qProcs' = [qProcs EXCEPT ![i] = QSettled(@, "conflict")]
             /\ UNCHANGED <<qrDb, qrError>>
          \/ /\ qrError' = "Failed to initialize QR settings in database."
             /\ qProcs' = [qProcs EXCEPT ![i] = QSettled(@, "failed")]
             /\ UNCHANGED qrDb
    /\ qrIsLoading' = FALSE
    /\ UNCHANGED <<qrUser, authLoading, qrSettings, localStorage, started,
                   mounted, vars_profile, contactsVars>>

\* updateQrSettings that returns before the cache write when no user is
\* authenticated.
UpdateQrSettingsSkipsGuestCache(upd) ==
    /\ mounted
    /\ started < MaxOps
    /\ started' = started + 1
    /\ LET newSettings == Merge(qrSettings, upd) IN
         /\ qrSettings' = newSettings
         /\ IF qrUser = NoUser
            THEN /\ qProcs' = Append(qProcs,
                       QSettled(QProc("updateQr", "done", qrUser, NoItem,
                                      newSettings, << >>), "done"))
                 /\ UNCHANGED <<qrError, localStorage>>
            ELSE /\ localStorage' =
                       [localStorage EXCEPT ![QrKey(qrUser)] = JsonItem(newSettings)]
                 /\ qrError' = NoError
                 /\ qProcs' = Append(qProcs,
                       QProc("updateQr", "list", qrUser, NoItem, newSettings,
                             <<QCall("listDocuments", qrUser, NoQrPayload, {})>>))
    /\ UNCHANGED <<qrUser, authLoading, qrIsLoading, qrDb, mounted,
                   vars_profile, contactsVars>>

\* updateQrSettings(settingsToUpdate), up to its first await.
UpdateQrSettings(upd) ==
    /\ mounted
    /\ started < MaxOps
    /\ started' = started + 1
    /\ LET newSettings == Merge(qrSettings, upd) IN
         /\ qrSettings' = newSettings
         /\ localStorage' =
               [localStorage EXCEPT ![QrKey(qrUser)] = JsonItem(newSettings)]
         /\ IF qrUser = NoUser
            THEN /\ qProcs' = Append(qProcs,
                       QSettled(QProc("updateQr", "done", qrUser, NoItem,
                                      newSettings, << >>), "done"))
                 /\ UNCHANGED qrError
            ELSE /\ qrError' = NoError
                 /\ qProcs' = Append(qProcs,
                       QProc("updateQr", "list", qrUser, NoItem, newSettings,
                             <<QCall("listDocuments", qrUser, NoQrPayload, {})>>))
    /\ UNCHANGED <<qrUser, authLoading, qrIsLoading, qrDb, mounted,
                   vars_profile, contactsVars>>

\* listDocuments of the update answers: no document, so create one; or a
\* document, so update it.
UpdateQrListed(i) ==
    /\ i \in DOMAIN qProcs
    /\ qProcs[i].kind = "updateQr" /\ qProcs[i].pc = "list"
    /\ LET p == qProcs[i]
           payload == qrPayload(p.settings, p.uid)
       IN qProcs' = [qProcs EXCEPT ![i] =
             IF qrDb[p.uid].exists
             THEN [@ EXCEPT !.pc = "update",
                       !.calls = Append(@, QCall("updateDocument", p.uid, payload, {}))]
             ELSE [@ EXCEPT !.pc = "create",
                       !.calls = Append(@, QCall("createDocumentWithId", p.uid,
                                                 payload, OwnerPermissions(p.uid)))]]
    /\ UNCHANGED <<qrUser, authLoading, qrSettings, qrIsLoading, qrError, qrDb,
                   localStorage, started, mounted, vars_profile, contactsVars>>

\* The create or update of updateQrSettings is stored.
UpdateQrWritten(i) ==
    /\ i \in DOMAIN qProcs
    /\ qProcs[i].kind = "updateQr" /\ qProcs[i].pc \in {"create", "update"}
    /\ LET p == qProcs[i]
           call == p.calls[Len(p.calls)]
       IN /\ (p.pc = "create") = ~qrDb[p.uid].exists
          /\ qrDb' = [qrDb EXCEPT ![p.uid] =
                [exists |-> TRUE, doc |-> call.payload,
                 perms |-> IF p.pc = "create" THEN call.perms ELSE @.perms]]
    /\ qProcs' = [qProcs EXCEPT ![i] = QSettled(@, "done")]
    /\ UNCHANGED <<qrUser, authLoading, qrSettings, qrIsLoading, qrError,
                   localStorage, started, mounted, vars_profile, contactsVars>>

\* Any remote call of updateQrSettings throws (listDocuments, updateDocument,
\* createDocumentWithId, also on a conflict): the one catch block sets the error.
UpdateQrFails(i) ==
    /\ i \in DOMAIN qProcs
    /\ qProcs[i].kind = "updateQr" /\ InFlight(qProcs[i])
    /\ qrError' = "Failed to save QR settings to database."
    /\ qProcs' = [qProcs EXCEPT ![i] = QSettled(@, "failed")]
    /\ UNCHANGED <<qrUser, authLoading, qrSettings, qrIsLoading, qrDb,
                   localStorage, started, mounted, vars_profile, contactsVars>>

\* updateDocument of updateQrSettings is answered as not found (another
\* session removed the document after it was listed): the same catch block.
UpdateQrNotFound(i) ==
    /\ i \in DOMAIN qProcs
    /\ qProcs[i].kind = "updateQr" /\ qProcs[i].pc = "update"
    /\ qrDb' = [qrDb EXCEPT ![qProcs[i].uid] = NoQrEntry]
    /\ qrError' = "Failed to save QR settings to database."
    /\ qProcs' = [qProcs EXCEPT ![i] = QSettled([@ EXCEPT !.notFound = TRUE], "failed")]
    /\ UNCHANGED <<qrUser, authLoading, qrSettings, qrIsLoading,
                   localStorage, started, mounted, vars_profile, contactsVars>>

\* ---------------------------------------------------------- contacts hook
\* A contact document: its $id, its owner (user_id), its name and its notes
\* (texts, as sequences of characters).
Contact(id, owner, name, notes) ==
    [id |-> id, user_id |-> owner, name |-> name, notes |-> notes]

\* The contacts userA saved in an earlier session, newest first.
SeedContacts ==
    <<Contact("c2", "userA", <<"B", "o">>, << >>),
      Contact("c1", "userA", <<"A", "l">>, << >>)>>

\* { ...contact, ...data } for the contact data names ($id excluded from the
\* payload, which leaves it as it is).
MergeContact(c, data) ==
    [f \in DOMAIN c |-> IF f \in DOMAIN data /\ f # "id" THEN data[f] ELSE c[f]]
\* contacts.map(c => c.$id === id ? { ...c, ...data } : c); with a whole
\* document for data the contact is replaced by it.
MapContact(list, id, data) ==
    [k \in DOMAIN list |->
        IF list[k].id = id THEN MergeContact(list[k], data) ELSE list[k]]
\* contacts.filter(c => c.$id !== id)
WithoutContact(list, id) == SelectSeq(list, LAMBDA c : c.id # id)
\* The documents listDocuments answers with for Query.equal('user_id', uid).
ContactsOf(uid) == SelectSeq(contactsDb, LAMBDA c : c.user_id = uid)
HasContact(id) == \E k \in DOMAIN contactsDb : contactsDb[k].id = id

\* The arguments the model passes to updateContact and deleteContact.
ContactUpdates == {[id |-> "c1", name |-> <<"A", "l", "a", "n">>]}
ContactIds == {"c1", "c2"}
NoContactData == [id |-> "", name |-> << >>]

\* An invocation of loadContacts, updateContact or deleteContact: the user id
\* and the contacts of its closure (originalContacts), its argument, its calls.
CProc(kind, pc, uid, original, data, calls) ==
    [kind |-> kind, pc |-> pc, uid |-> uid, original |-> original,
     data |-> data, calls |-> calls]
CSettled(p, how) == CProc(p.kind, how, p.uid, << >>, NoContactData, p.calls)
CCall(op, id) == [op |-> op, id |-> id]

InitContacts ==
    /\ contacts = << >>
    /\ cIsLoading = TRUE
    /\ cError = NoError
    /\ cProcs = << >>
    /\ contactsDb = SeedContacts

\* loadContacts(), up to its await, run by the effect with appwriteUserId = u.
InvokeLoadContacts(u) ==
    /\ cError' = NoError
    /\ contacts' =
          IF localStorage["contacts"].kind = "json"
          THEN localStorage["contacts"].val
          ELSE contacts
    /\ localStorage' =
          IF localStorage["contacts"].kind = "bad"
          THEN [localStorage EXCEPT !["contacts"] = NoItem]
          ELSE localStorage
    /\ IF u = NoUser
       THEN /\ cIsLoading' = FALSE
            /\ UNCHANGED cProcs
       ELSE /\ cIsLoading' = TRUE
            /\ cProcs' = Append(cProcs,
                  CProc("loadContacts", "list", u, << >>, NoContactData,
                        <<CCall("listDocuments", u)>>))

\* listDocuments of loadContacts answers.
LoadContactsListed(i) ==
    /\ i \in DOMAIN cProcs
    /\ cProcs[i].kind = "loadContacts" /\ cProcs[i].pc = "list"
    /\ contacts' = ContactsOf(cProcs[i].uid)
    /\ localStorage' =
          [localStorage EXCEPT !["contacts"] = JsonItem(ContactsOf(cProcs[i].uid))]
    /\ cIsLoading' = FALSE
    /\ cProcs' = [cProcs EXCEPT ![i] = CSettled(@, "done")]
    /\ UNCHANGED <<cError, contactsDb, started, mounted, vars_profile, qrVars>>

\* listDocuments of loadContacts throws.
LoadContactsFailed(i) ==
    /\ i \in DOMAIN cProcs
    /\ cProcs[i].kind = "loadContacts" /\ cProcs[i].pc = "list"
    /\ cError' =
          "Failed to load contacts from database. Using local data if available."
    /\ cIsLoading' = FALSE
    /\ cProcs' = [cProcs EXCEPT ![i] = CSettled(@, "failed")]
    /\ UNCHANGED <<contacts, localStorage, contactsDb, started, mounted,
                   vars_profile, qrVars>>

\* updateContact(data), up to its await, for a contact the page shows.
UpdateContact(data) ==
    /\ mounted
    /\ \E k \in DOMAIN contacts : contacts[k].id = data.id
    /\ started < MaxOps
    /\ started' = started + 1
    /\ LET merged == MapContact(contacts, data.id, data)
       IN IF user = NoUser
          THEN /\ cError' = "User not authenticated. Contact update failed."
               /\ contacts' = merged
               /\ localStorage' = [localStorage EXCEPT !["contacts"] = JsonItem(merged)]
               /\ UNCHANGED <<cIsLoading, cProcs>>
          ELSE /\ cIsLoading' = TRUE
               /\ cError' = NoError
               /\ contacts' = merged
               /\ cProcs' = Append(cProcs,
                     CProc("updateContact", "update", user, contacts, data,
                           <<CCall("updateDocument", data.id)>>))
               /\ UNCHANGED localStorage
    /\ UNCHANGED <<contactsDb, mounted, vars_profile, qrVars>>

\* updateDocument of updateContact answers with the updated document: it
\* replaces the contact in the state, and in the cache it replaces the contact
\* in the contacts of the closure.
UpdateContactSucceeds(i) ==
    /\ i \in DOMAIN cProcs
    /\ cProcs[i].kind = "updateContact" /\ cProcs[i].pc = "update"
    /\ HasContact(cProcs[i].data.id)
    /\ LET p == cProcs[i]
           k == CHOOSE j \in DOMAIN contactsDb : contactsDb[j].id = p.data.id
           response == MergeContact(contactsDb[k], p.data)
       IN /\ contactsDb' = [contactsDb EXCEPT ![k] = response]
          /\ contacts' = MapContact(contacts, response.id, response)
          /\ localStorage' =
                [localStorage EXCEPT !["contacts"] =
                    JsonItem(MapContact(p.original, response.id, response))]
    /\ cIsLoading' = FALSE
    /\ cProcs' = [cProcs EXCEPT ![i] = CSettled(@, "done")]
    /\ UNCHANGED <<cError, started, mounted, vars_profile, qrVars>>

\* A failed updateContact that sets the error and keeps the optimistic state.
UpdateContactFailsKeeps(i) ==
    /\ i \in DOMAIN cProcs
    /\ cProcs[i].kind = "updateContact" /\ cProcs[i].pc = "update"
    /\ cError' = "Failed to update contact in database. Reverting local changes."
    /\ cIsLoading' = FALSE
    /\ cProcs' = [cProcs EXCEPT ![i] = CSettled(@, "failed")]
    /\ UNCHANGED <<contacts, localStorage, contactsDb, started, mounted,
                   vars_profile, qrVars>>

\* updateDocument of updateContact throws: the catch block reverts the state
\* and the cache to the contacts of the closure.
UpdateContactFails(i) ==
    /\ i \in DOMAIN cProcs
    /\ cProcs[i].kind = "updateContact" /\ cProcs[i].pc = "update"
    /\ cError' = "Failed to update contact in database. Reverting local changes."
    /\ contacts' = cProcs[i].original
    /\ localStorage' =
          [localStorage EXCEPT !["contacts"] = JsonItem(cProcs[i].original)]
    /\ cIsLoading' = FALSE
    /\ cProcs' = [cProcs EXCEPT ![i] = CSettled(@, "failed")]
    /\ UNCHANGED <<contactsDb, started, mounted, vars_profile, qrVars>>

\* deleteContact(documentId), up to its await, for a contact the page shows.
DeleteContact(id) ==
    /\ mounted
    /\ \E k \in DOMAIN contacts : contacts[k].id = id
    /\ started < MaxOps
    /\ started' = started + 1
    /\ IF user = NoUser
       THEN /\ cError' = "User not authenticated. Contact deletion failed."
            /\ contacts' = WithoutContact(contacts, id)
            /\ localStorage' =
                  [localStorage EXCEPT !["contacts"] =
                      JsonItem(WithoutContact(contacts, id))]
            /\ UNCHANGED <<cIsLoading, cProcs>>
       ELSE /\ cIsLoading' = TRUE
            /\ cError' = NoError
            /\ contacts' = WithoutContact(contacts, id)
            /\ cProcs' = Append(cProcs,
                  CProc("deleteContact", "delete", user, contacts,
                        [id |-> id, name |-> << >>], <<CCall("deleteDocument", id)>>))
            /\ UNCHANGED localStorage
    /\ UNCHANGED <<contactsDb, mounted, vars_profile, qrVars>>

\* deleteDocument of deleteContact answers: the cache gets the contacts of the
\* closure without the deleted one.
DeleteContactSucceeds(i) ==
    /\ i \in DOMAIN cProcs
    /\ cProcs[i].kind = "deleteContact" /\ cProcs[i].pc = "delete"
    /\ HasContact(cProcs[i].data.id)
    /\ contactsDb' = WithoutContact(contactsDb, cProcs[i].data.id)
    /\ localStorage' =
          [localStorage EXCEPT !["contacts"] =
              JsonItem(WithoutContact(cProcs[i].original, cProcs[i].data.id))]
    /\ cIsLoading' = FALSE
    /\ cProcs' = [cProcs EXCEPT ![i] = CSettled(@, "done")]
    /\ UNCHANGED <<contacts, cError, started, mounted, vars_profile, qrVars>>

\* deleteDocument of deleteContact throws: the catch block reverts the state
\* and the cache to the contacts of the closure.
DeleteContactFails(i) ==
    /\ i \in DOMAIN cProcs
    /\ cProcs[i].kind = "deleteContact" /\ cProcs[i].pc = "delete"
    /\ cError' = "Failed to delete contact from database. Reverting local changes."
    /\ contacts' = cProcs[i].original
    /\ localStorage' =
          [localStorage EXCEPT !["contacts"] = JsonItem(cProcs[i].original)]
    /\ cIsLoading' = FALSE
    /\ cProcs' = [cProcs EXCEPT ![i] = CSettled(@, "failed")]
    /\ UNCHANGED <<contactsDb, started, mounted, vars_profile, qrVars>>

\* ---------------------------------------------------------------- texts
\* The scanned payloads are sequences of characters, so that the string
\* methods of the parser are computed character by character.
\* s.startsWith(p)
StartsWith(s, p) == Len(s) >= Len(p) /\ SubSeq(s, 1, Len(p)) = p
\* s.includes(p)
Includes(s, p) ==
    \E i \in 1..(Len(s) - Len(p) + 1) : SubSeq(s, i, i + Len(p) - 1) = p
\* s.indexOf(c) for a character c, counted from 1; 0 where JavaScript has -1
IndexOf(s, c) ==
    LET at == {i \in 1..Len(s) : s[i] = c}
    IN IF at = {} THEN 0 ELSE CHOOSE i \in at : \A j \in at : i <= j
\* s.split(c) for a character c: every piece, the empty ones included
RECURSIVE Split(_, _)
Split(s, c) ==
    LET i == IndexOf(s, c)
    IN IF i = 0 THEN <<s>>
       ELSE <<SubSeq(s, 1, i - 1)>> \o Split(SubSeq(s, i + 1, Len(s)), c)
\* s.trim(): the white space of the model's texts is " ", \t, \n and \r
Trim(s) ==
    LET ink == {i \in 1..Len(s) : s[i] \notin {" ", "\t", "\n", "\r"}}
    IN IF ink = {} THEN << >>
       ELSE SubSeq(s, CHOOSE i \in ink : \A j \in ink : i <= j,
                      CHOOSE i \in ink : \A j \in ink : i >= j)
\* s.toLowerCase(), and the lower-casing of a host by the URL parser
ToLowerCase(s) ==
    LET upper == <<"A", "B", "C", "D", "E", "F", "G", "H", "I", "J", "K", "L", "M", "N", "O", "P", "Q", "R", "S", "T", "U", "V", "W", "X", "Y", "Z">>
        lower == <<"a", "b", "c", "d", "e", "f", "g", "h", "i", "j", "k", "l", "m", "n", "o", "p", "q", "r", "s", "t", "u", "v", "w", "x", "y", "z">>
    IN [i \in 1..Len(s) |->
          IF \E k \in 1..26 : upper[k] = s[i]
          THEN lower[CHOOSE k \in 1..26 : upper[k] = s[i]]
          ELSE s[i]]

\* A property of a partial contact: undefined, or a string.
NoText == [def |-> FALSE, s |-> << >>]
Txt(s) == [def |-> TRUE, s |-> s]
\* a || b for two such properties: undefined and '' are falsy
OrText(a, b) == IF a.s # << >> THEN a ELSE b

\* ------------------------------------------------------------ QR parser
\* A partial contact: each property undefined or a string, but socials, a
\* set of <<platform, url>> pairs.
PartialContact(name, email, phone, socials, notes) ==
    [name |-> name, title |-> NoText, company |-> NoText, email |-> email,
     phone |-> phone, socials |-> socials, notes |-> notes,
     metAt |-> Txt(<<"Q", "R", " ", "C", "o", "d", "e", " ", "S", "c", "a", "n">>)]

\* parseVCard(vcard): split on \r\n, \r or \n, trim every line, and run the
\* body of lines.forEach over the lines, with currentKey and currentValue
\* carried from line to line.  The continuation branch adds to currentValue
\* and returns: it assigns no property of the contact.
parseVCard(vcard) ==
    LET RECURSIVE SplitLines(_)
        SplitLines(s) ==
            LET brk == {i \in 1..Len(s) : s[i] \in {"\r", "\n"}}
                i == CHOOSE k \in brk : \A j \in brk : k <= j
                crlf == s[i] = "\r" /\ i < Len(s) /\ s[i + 1] = "\n"
            IN IF brk = {} THEN <<s>>
               ELSE <<SubSeq(s, 1, i - 1)>>
                       \o SplitLines(SubSeq(s, IF crlf THEN i + 2 ELSE i + 1, Len(s)))
        RECURSIVE vCardLines(_, _, _)
        vCardLines(lines, contact, current) ==
            IF lines = << >> THEN contact
            ELSE
              LET line == Head(lines)
                  colonIndex == IndexOf(line, ":")
                  skipped ==
                      \/ StartsWith(line, <<"B", "E", "G", "I", "N", ":">>)
                      \/ StartsWith(line, <<"E", "N", "D", ":">>)
                      \/ StartsWith(line, <<"V", "E", "R", "S", "I", "O", "N", ":">>)
                  continuation ==
                      ~skipped /\ StartsWith(line, <<" ">>) /\ current.key # << >>
                  currentKey == Head(Split(SubSeq(line, 1, colonIndex - 1), ";"))
                  currentValue == SubSeq(line, colonIndex + 1, Len(line))
                  carried ==
                      IF continuation
                      THEN [current EXCEPT !.value = @ \o Trim(line)]
                      ELSE IF skipped \/ colonIndex = 0 THEN current
                      ELSE [key |-> currentKey, value |-> currentValue]
                  lowered == ToLowerCase(line)
                  urlType ==
                      IF Includes(lowered, <<"l", "i", "n", "k", "e", "d", "i", "n">>) THEN "linkedin"
                      ELSE IF Includes(lowered, <<"t", "w", "i", "t", "t", "e", "r">>) \/ Includes(lowered, <<"x", ".", "c", "o", "m">>)
                           THEN "twitter"
                      ELSE IF Includes(lowered, <<"i", "n", "s", "t", "a", "g", "r", "a", "m">>) THEN "instagram"
                      ELSE IF Includes(lowered, <<"f", "a", "c", "e", "b", "o", "o", "k">>) THEN "facebook"
                      ELSE "website"
                  after ==
                      IF skipped \/ continuation \/ colonIndex = 0
                      THEN contact
                      ELSE IF currentKey \in {<<"F", "N">>, <<"N">>}
                      THEN IF contact.name.s # << >> THEN contact
                           ELSE [contact EXCEPT !.name = Txt(Head(Split(currentValue, ";")))]
                      ELSE IF currentKey = <<"T", "I", "T", "L", "E">>
                      THEN [contact EXCEPT !.title = Txt(currentValue)]
                      ELSE IF currentKey = <<"O", "R", "G">>
                      THEN [contact EXCEPT !.company = Txt(Head(Split(currentValue, ";")))]
                      ELSE IF currentKey = <<"E", "M", "A", "I", "L">>
                      THEN [contact EXCEPT !.email = Txt(currentValue)]
                      ELSE IF currentKey = <<"T", "E", "L">>
                      THEN [contact EXCEPT !.phone = Txt(currentValue)]
                      ELSE IF currentKey = <<"N", "O", "T", "E">>
                      THEN [contact EXCEPT !.notes = Txt(currentValue)]
                      ELSE IF currentKey = <<"U", "R", "L">>
                      THEN [contact EXCEPT !.socials =
                               {e \in @ : e[1] # urlType} \cup {<<urlType, currentValue>>}]
                      ELSE contact
              IN vCardLines(Tail(lines), after, carried)
        split == SplitLines(vcard)
    IN vCardLines([k \in DOMAIN split |-> Trim(split[k])],
                  PartialContact(NoText, NoText, NoText, {},
                                 Txt(<<"C", "o", "n", "t", "a", "c", "t", " ", "f", "r", "o", "m", " ", "v", "C", "a", "r", "d">>)),
                  [key |-> << >>, value |-> << >>])

\* parseMeCard(mecard): mecard.substring(7).split(";"), and the body of
\* fields.forEach over the fields.  field.split(":", 2) keeps the first two
\* pieces of the split and drops the rest; a field without a second piece, or
\* with an empty one, is skipped.
parseMeCard(mecard) ==
    LET RECURSIVE meCardFields(_, _)
        meCardFields(fields, contact) ==
            IF fields = << >> THEN contact
            ELSE
              LET pieces == Split(Head(fields), ":")
                  key == pieces[1]
                  value == IF Len(pieces) >= 2 THEN pieces[2] ELSE << >>
                  comma == IndexOf(value, ",")
                  replaced ==
                      IF comma = 0 THEN value
                      ELSE SubSeq(value, 1, comma - 1) \o <<" ">>
                              \o SubSeq(value, comma + 1, Len(value))
                  after ==
                      IF value = << >> THEN contact
                      ELSE IF key = <<"N">> THEN [contact EXCEPT !.name = Txt(replaced)]
                      ELSE IF key = <<"T", "E", "L">> THEN [contact EXCEPT !.phone = Txt(value)]
                      ELSE IF key = <<"E", "M", "A", "I", "L">> THEN [contact EXCEPT !.email = Txt(value)]
                      ELSE IF key = <<"O", "R", "G">> THEN [contact EXCEPT !.company = Txt(value)]
                      ELSE IF key = <<"T", "I", "T", "L", "E">> THEN [contact EXCEPT !.title = Txt(value)]
                      ELSE IF key = <<"U", "R", "L">>
                      THEN [contact EXCEPT !.socials =
                               {e \in @ : e[1] # "website"} \cup {<<"website", value>>}]
                      ELSE IF key = <<"N", "O", "T", "E">> THEN [contact EXCEPT !.notes = Txt(value)]
                      ELSE contact
              IN meCardFields(Tail(fields), after)
    IN meCardFields(Split(SubSeq(mecard, 8, Len(mecard)), ";"),
                    PartialContact(NoText, NoText, NoText, {},
                                   Txt(<<"C", "o", "n", "t", "a", "c", "t", " ", "f", "r", "o", "m", " ", "M", "e", "C", "a", "r", "d">>)))

\* JSON.parse(text) for the texts the model scans: an object whose members
\* are "key":"value" strings written without white space inside, possibly
\* with white space around the braces; any other text makes JSON.parse throw.
parseJsonObject(text) ==
    LET t == Trim(text)
        inner == Trim(SubSeq(t, 2, Len(t) - 1))
        members == IF inner = << >> THEN << >> ELSE Split(inner, ",")
        pieces == [k \in DOMAIN members |-> Split(members[k], "\"")]
        ok == \A k \in DOMAIN members :
                 /\ Len(pieces[k]) = 5
                 /\ pieces[k][1] = << >>
                 /\ pieces[k][3] = <<":">>
                 /\ pieces[k][5] = << >>
        last(key) == CHOOSE k \in DOMAIN members :
                        /\ pieces[k][2] = key
                        /\ \A j \in DOMAIN members : pieces[j][2] = key => j <= k
    IN IF ok
       THEN [ok |-> TRUE,
             o |-> [key \in {pieces[k][2] : k \in DOMAIN members} |->
                       Txt(pieces[last(key)][4])]]
       ELSE [ok |-> FALSE, o |-> [key \in {} |-> NoText]]

\* The contact parseQrData builds from a parsed JSON object (none of the
\* model's objects has a socials member, so socials is the {} of the code).
jsonContact(jsonData) ==
    LET P(key) == IF key \in DOMAIN jsonData THEN jsonData[key] ELSE NoText
    IN [name |-> OrText(OrText(P(<<"n", "a", "m", "e">>), P(<<"f", "n">>)), P(<<"f", "u", "l", "l", "N", "a", "m", "e">>)),
        title |-> OrText(P(<<"t", "i", "t", "l", "e">>), P(<<"j", "o", "b", "T", "i", "t", "l", "e">>)),
        company |-> OrText(P(<<"c", "o", "m", "p", "a", "n", "y">>), P(<<"o", "r", "g", "a", "n", "i", "z", "a", "t", "i", "o", "n">>)),
        email |-> P(<<"e", "m", "a", "i", "l">>),
        phone |-> OrText(P(<<"p", "h", "o", "n", "e">>), P(<<"t", "e", "l">>)),
        socials |-> {},
        notes |-> P(<<"n", "o", "t", "e", "s">>),
        metAt |-> Txt(<<"Q", "R", " ", "C", "o", "d", "e", " ", "S", "c", "a", "n">>)]

\* new URL(data): whether it parses, and url.hostname.  A scheme is the text
\* before the first colon; after http: or https: any slashes are skipped and
\* the host runs to the next /, ? or #, less user info and port, and must be
\* non-empty and free of spaces; it is lower-cased.  Another scheme has a
\* host only after //.  Without a scheme the text is a relative reference,
\* which throws for want of a base.
parseUrl(data) ==
    LET text == Trim(data)
        colon == IndexOf(text, ":")
        scheme == ToLowerCase(SubSeq(text, 1, colon - 1))
        schemeChars == {scheme[i] : i \in DOMAIN scheme}
        rest == SubSeq(text, colon + 1, Len(text))
        solid == {i \in 1..Len(rest) : rest[i] # "/"}
        start == IF solid = {} THEN Len(rest) + 1
                 ELSE CHOOSE i \in solid : \A j \in solid : i <= j
        tail == SubSeq(rest, start, Len(rest))
        stops == {i \in 1..Len(tail) : tail[i] \in {"/", "?", "#"}}
        authority ==
            IF stops = {} THEN tail
            ELSE SubSeq(tail, 1, (CHOOSE i \in stops : \A j \in stops : i <= j) - 1)
        hostport == Split(authority, "@")[Len(Split(authority, "@"))]
        host == Head(Split(hostport, ":"))
        special == scheme \in {<<"h", "t", "t", "p">>, <<"h", "t", "t", "p", "s">>}
        invalid == [ok |-> FALSE, hostname |-> << >>]
    IN IF colon <= 1 \/ schemeChars \cap {" ", "\t", "\n", "\r", "/", "?", "#", "@"} # {}
       THEN invalid
       ELSE IF special
       THEN IF host = << >> \/ \E i \in DOMAIN host : host[i] \in {" ", "\t", "\n", "\r"}
            THEN invalid
            ELSE [ok |-> TRUE, hostname |-> ToLowerCase(host)]
       ELSE [ok |-> TRUE, hostname |-> IF start = 3 THEN host ELSE << >>]

\* A URL rule that does not look at the hostname: every URL is a website.
urlContactAsWebsite(data, hostname) ==
    PartialContact(Txt(<<"W", "e", "b", " ", "C", "o", "n", "t", "a", "c", "t">>), NoText, NoText, {<<"website", data>>},
                   Txt(<<"C", "o", "n", "t", "a", "c", "t", " ", "f", "r", "o", "m", " ">> \o hostname))

\* The contact parseQrData builds for a URL with the given hostname.
urlContact(data, hostname) ==
    LET has(domain) == Includes(hostname, domain)
        notes == Txt(<<"C", "o", "n", "t", "a", "c", "t", " ", "f", "r", "o", "m", " ">> \o hostname)
        as(platform, name) ==
            PartialContact(Txt(name), NoText, NoText, {<<platform, data>>}, notes)
    IN IF has(<<"l", "i", "n", "k", "e", "d", "i", "n", ".", "c", "o", "m">>) THEN as("linkedin", <<"L", "i", "n", "k", "e", "d", "I", "n", " ", "C", "o", "n", "t", "a", "c", "t">>)
       ELSE IF has(<<"t", "w", "i", "t", "t", "e", "r", ".", "c", "o", "m">>) \/ has(<<"x", ".", "c", "o", "m">>)
            THEN as("twitter", <<"T", "w", "i", "t", "t", "e", "r", " ", "C", "o", "n", "t", "a", "c", "t">>)
       ELSE IF has(<<"i", "n", "s", "t", "a", "g", "r", "a", "m", ".", "c", "o", "m">>) THEN as("instagram", <<"I", "n", "s", "t", "a", "g", "r", "a", "m", " ", "C", "o", "n", "t", "a", "c", "t">>)
       ELSE IF has(<<"f", "a", "c", "e", "b", "o", "o", "k", ".", "c", "o", "m">>) THEN as("facebook", <<"F", "a", "c", "e", "b", "o", "o", "k", " ", "C", "o", "n", "t", "a", "c", "t">>)
       ELSE as("website", <<"W", "e", "b", " ", "C", "o", "n", "t", "a", "c", "t">>)

\* How a call of parseQrData ends: with a contact, with null, or with an
\* exception ("threw"); "none" before the first call.  Only a contact has
\* properties.
Returned(c) == [kind |-> "contact", c |-> c]
Ended(kind) ==
    [kind |-> kind, c |-> PartialContact(NoText, NoText, NoText, {}, NoText)]

\* parseQrData(data)
parseQrData(data) ==
    LET braces(trimmed) ==
            StartsWith(trimmed, <<"{">>) /\ trimmed[Len(trimmed)] = "}"
        phoneChars == {"+", "0", "1", "2", "3", "4", "5", "6", "7", "8", "9",
                       "-", "(", ")", " ", "\t", "\n", "\r"}
        ofUrl(url) ==
            IF url.ok THEN Returned(urlContact(data, url.hostname)) ELSE Ended("threw")
        \* the rules after the JSON rule
        later ==
            IF StartsWith(data, <<"h", "t", "t", "p">>) THEN ofUrl(parseUrl(data))
            ELSE IF Includes(data, <<"@">>) /\ Includes(data, <<".">>)
            THEN Returned(PartialContact(Txt(<<"E", "m", "a", "i", "l", " ", "C", "o", "n", "t", "a", "c", "t">>), Txt(data),
                                         NoText, {}, NoText))
            ELSE IF \A i \in DOMAIN data : data[i] \in phoneChars
            THEN Returned(PartialContact(Txt(<<"P", "h", "o", "n", "e", " ", "C", "o", "n", "t", "a", "c", "t">>), NoText,
                                         Txt(data), {}, NoText))
            ELSE Returned(PartialContact(Txt(<<"T", "e", "x", "t", " ", "N", "o", "t", "e">>), NoText, NoText, {},
                                         Txt(data)))
        \* JSON.parse threw: the catch block logs, and the later rules follow
        ofJson(jsonData) ==
            IF jsonData.ok THEN Returned(jsonContact(jsonData.o)) ELSE later
    IN IF data = << >> THEN Ended("null")
       ELSE IF StartsWith(data, <<"B", "E", "G", "I", "N", ":", "V", "C", "A", "R", "D">>) THEN Returned(parseVCard(data))
       ELSE IF StartsWith(data, <<"M", "E", "C", "A", "R", "D", ":">>) THEN Returned(parseMeCard(data))
       ELSE IF braces(Trim(data)) THEN ofJson(parseJsonObject(data))
       ELSE later

\* -------------------------------------------------------------- scan page
\* The payloads the model scans: vCards, MeCards, JSON objects, URLs, e-mail
\* addresses, phone numbers, plain texts, and texts that match several rules.
Payloads ==
    {<<"B", "E", "G", "I", "N", ":", "V", "C", "A", "R", "D", "\n", "V", "E", "R", "S", "I", "O", "N", ":", "3", ".", "0", "\n", "F", "N", ":", "J", "a", "n", "e", " ", "D", "o", "e", "\n", "E", "M", "A", "I", "L", ":", "j", "@", "x", ".", "i", "o", "\n", "E", "N", "D", ":", "V", "C", "A", "R", "D">>,
     <<"B", "E", "G", "I", "N", ":", "V", "C", "A", "R", "D", "\n", "N", ":", "D", "o", "e", ";", "J", "a", "n", "e", "\n", "F", "N", ":", "J", "a", "n", "e", " ", "D", "o", "e", "\n", "E", "N", "D", ":", "V", "C", "A", "R", "D">>,
     <<"B", "E", "G", "I", "N", ":", "V", "C", "A", "R", "D", "\n", "F", "N", ":", "D", "o", "e", ";", "J", "a", "n", "e", "\n", "E", "N", "D", ":", "V", "C", "A", "R", "D">>,
     <<"B", "E", "G", "I", "N", ":", "V", "C", "A", "R", "D", "\n", "F", "N", ":", "J", "a", "n", "e", "\n", "F", "N", ":", "J", "a", "n", "e", "t", "\n", "T", "E", "L", ";", "T", "Y", "P", "E", "=", "C", "E", "L", "L", ":", "5", "5", "5", "\n", "E", "N", "D", ":", "V", "C", "A", "R", "D">>,
     <<"B", "E", "G", "I", "N", ":", "V", "C", "A", "R", "D", "\r", "\n", "O", "R", "G", ":", "A", "c", "m", "e", ";", "L", "a", "b", "\r", "\n", "N", "O", "T", "E", ":", "h", "i", "\r", "\n", "E", "N", "D", ":", "V", "C", "A", "R", "D">>,
     <<"B", "E", "G", "I", "N", ":", "V", "C", "A", "R", "D", "\n", "F", "N", ":", "J", "a", "n", "e", "\n", "N", "O", "T", "E", ":", "m", "e", "t", " ", "a", "t", "\n", " ", "t", "h", "e", " ", "b", "o", "o", "t", "h", "\n", "E", "N", "D", ":", "V", "C", "A", "R", "D">>,
     <<"B", "E", "G", "I", "N", ":", "V", "C", "A", "R", "D", "\n", "F", "N", ":", "J", "a", "n", "e", "\n", " ", "D", "o", "e", "\n", " ", "T", "E", "L", ":", "5", "5", "5", "\n", "E", "N", "D", ":", "V", "C", "A", "R", "D">>,
     <<"M", "E", "C", "A", "R", "D", ":", "N", ":", "D", "o", "e", ",", "J", "a", "n", "e", ";", "T", "E", "L", ":", "5", "5", "5", "1", "2", "3", "4", ";", "E", "M", "A", "I", "L", ":", "j", "a", "n", "e", "@", "x", ".", "c", "o", "m", ";", ";">>,
     <<"M", "E", "C", "A", "R", "D", ":", "N", ":", "D", "o", "e", ",", "J", "a", "n", "e", ";", "U", "R", "L", ":", "h", "t", "t", "p", "s", ":", "/", "/", "m", "e", ".", "i", "o", "/", "j", "a", "n", "e", ";", ";">>,
     <<"M", "E", "C", "A", "R", "D", ":", "N", ":", "D", "o", "e", ",", "J", "o", "h", "n", ";", ";">>,
     <<"M", "E", "C", "A", "R", "D", ":", "N", ":", ";", "T", "E", "L", ":", ";", ";">>,
     <<"M", "E", "C", "A", "R", "D", ":", "T", "E", "L", ":", "5", "5", "5", ";", "E", "M", "A", "I", "L", ":", "m", "a", "i", "l", "t", "o", ":", "j", "@", "x", ".", "i", "o", ";", ";">>,
     <<"{", "\"", "n", "a", "m", "e", "\"", ":", "\"", "J", "a", "n", "e", "\"", "}">>,
     <<"{", "\"", "f", "n", "\"", ":", "\"", "J", "a", "n", "e", "\"", "}">>,
     <<"{", "\"", "f", "u", "l", "l", "N", "a", "m", "e", "\"", ":", "\"", "J", "a", "n", "e", "\"", "}">>,
     <<"{", "\"", "p", "h", "o", "n", "e", "\"", ":", "\"", "5", "5", "5", "\"", "}">>,
     <<"{", "\"", "t", "e", "l", "\"", ":", "\"", "5", "5", "5", "\"", "}">>,
     <<"{", "\"", "c", "o", "m", "p", "a", "n", "y", "\"", ":", "\"", "A", "c", "m", "e", "\"", ",", "\"", "e", "m", "a", "i", "l", "\"", ":", "\"", "j", "@", "x", ".", "i", "o", "\"", "}">>,
     <<"{", "\"", "o", "r", "g", "a", "n", "i", "z", "a", "t", "i", "o", "n", "\"", ":", "\"", "A", "c", "m", "e", "\"", ",", "\"", "e", "m", "a", "i", "l", "\"", ":", "\"", "j", "@", "x", ".", "i", "o", "\"", "}">>,
     <<"{", "\"", "t", "i", "t", "l", "e", "\"", ":", "\"", "C", "T", "O", "\"", ",", "\"", "e", "m", "a", "i", "l", "\"", ":", "\"", "j", "@", "x", ".", "i", "o", "\"", "}">>,
     <<"{", "\"", "j", "o", "b", "T", "i", "t", "l", "e", "\"", ":", "\"", "C", "T", "O", "\"", ",", "\"", "e", "m", "a", "i", "l", "\"", ":", "\"", "j", "@", "x", ".", "i", "o", "\"", "}">>,
     <<"{", "\"", "p", "h", "o", "n", "e", "\"", ":", "\"", "\"", "}">>,
     <<"{", "\"", "t", "e", "l", "\"", ":", "\"", "\"", "}">>,
     <<" ", "{", "\"", "e", "m", "a", "i", "l", "\"", ":", "\"", "j", "@", "x", ".", "i", "o", "\"", "}", " ">>,
     <<"{", "}">>,
     <<"{", "j", "@", "x", ".", "i", "o", "}">>,
     <<"{", "n", "o", "t", "e", "}">>,
     <<"h", "t", "t", "p", "s", ":", "/", "/", "l", "i", "n", "k", "e", "d", "i", "n", ".", "c", "o", "m", "/", "i", "n", "/", "j", "a", "n", "e">>,
     <<"h", "t", "t", "p", "s", ":", "/", "/", "w", "w", "w", ".", "L", "i", "n", "k", "e", "d", "I", "n", ".", "c", "o", "m", "/", "i", "n", "/", "j", "@", "x", ".", "i", "o">>,
     <<"h", "t", "t", "p", "s", ":", "/", "/", "m", "e", ".", "i", "o", "/", "l", "i", "n", "k", "e", "d", "i", "n", ".", "c", "o", "m">>,
     <<"h", "t", "t", "p", ":", "/", "/", "x", ".", "c", "o", "m", "/", "j", "a", "n", "e">>,
     <<"h", "t", "t", "p">>,
     <<"h", "t", "t", "p", " ", "i", "s", " ", "n", "o", "t", " ", "a", " ", "u", "r", "l">>,
     <<"m", "a", "i", "l", " ", "j", "@", "x", ".", "i", "o">>,
     <<"+", "1", " ", "(", "5", "5", "5", ")", " ", "1", "2", "3", "-", "4", "5", "6", "7">>,
     <<"n", "o", "t", " ", "a", " ", "u", "r", "l", " ", "o", "r", " ", "v", "c", "a", "r", "d", " ", "j", "u", "s", "t", " ", "s", "o", "m", "e", " ", "t", "e", "x", "t">>,
     <<" ">>}

\* The scan page has been constructed and its effect has not run yet.
InitScan ==
    /\ scanResult = NoText
    /\ scanError = NoError
    /\ cameraPermission = "null"
    /\ isScanning = FALSE
    /\ parsedData = Ended("none")
    /\ route = "/scan"

\* startCamera(), run by the page's effect: getUserMedia resolves or rejects.
StartCamera(granted) ==
    /\ mounted
    /\ route = "/scan"
    /\ cameraPermission = "null"
    /\ cameraPermission' = IF granted THEN "granted" ELSE "denied"
    /\ isScanning' = granted
    /\ scanError' =
          IF granted THEN scanError ELSE "Camera permission denied or not available"
    /\ UNCHANGED <<scanResult, parsedData, route, vars, mounted, qrVars, contactsVars,
                   authVars>>

\* addContact(newContactData), up to its await.  Without a user the contact is
\* kept locally under a temporary id; with one, createDocument is issued.
AddContact(newContactData) ==
    IF user = NoUser
    THEN /\ cError' = "User not authenticated. Contact saved locally only."
         /\ contacts' =
               <<[newContactData EXCEPT !.id = "local-1700000000000",
                                        !.user_id = "local-placeholder"]>>
                  \o contacts
         /\ localStorage' = [localStorage EXCEPT !["contacts"] = JsonItem(contacts')]
         /\ UNCHANGED <<cIsLoading, cProcs>>
    ELSE /\ cIsLoading' = TRUE
         /\ cError' = NoError
         /\ cProcs' = Append(cProcs,
               CProc("addContact", "create", user, contacts, newContactData,
                     <<CCall("createDocument", "unique()")>>))
         /\ UNCHANGED <<contacts, localStorage>>

\* createDocument of addContact answers with the stored document: it is put
\* in front of the contacts of the closure, in the state and in the cache.
AddContactSucceeds(i) ==
    /\ i \in DOMAIN cProcs
    /\ cProcs[i].kind = "addContact" /\ cProcs[i].pc = "create"
    /\ LET p == cProcs[i]
           response == [p.data EXCEPT !.id = "c3", !.user_id = p.uid]
       IN /\ contactsDb' = <<response>> \o contactsDb
          /\ contacts' = <<response>> \o p.original
          /\ localStorage' =
                [localStorage EXCEPT !["contacts"] = JsonItem(<<response>> \o p.original)]
    /\ cIsLoading' = FALSE
    /\ cProcs' = [cProcs EXCEPT ![i] = CSettled(@, "done")]
    /\ UNCHANGED <<cError, started, mounted, vars_profile, qrVars>>

\* createDocument of addContact throws.
AddContactFails(i) ==
    /\ i \in DOMAIN cProcs
    /\ cProcs[i].kind = "addContact" /\ cProcs[i].pc = "create"
    /\ cError' = "Failed to save contact to database. Please try again."
    /\ cIsLoading' = FALSE
    /\ cProcs' = [cProcs EXCEPT ![i] = CSettled(@, "failed")]
    /\ UNCHANGED <<contacts, localStorage, contactsDb, started, mounted,
                   vars_profile, qrVars>>

\* A handler that, when the parser extracted no name, e-mail or phone, stores
\* a contact whose notes are the scanned text instead of reporting an error.
HandleQrDetectedStoresNote(data) ==
    /\ mounted
    /\ route = "/scan"
    /\ started < MaxOps
    /\ started' = started + 1
    /\ LET newContact(c) ==
               Contact("1700000000000", NoUser,
                       OrText(c.name, Txt(<<"U", "n", "k", "n", "o", "w", "n", " ", "C", "o", "n", "t", "a", "c", "t">>)).s,
                       OrText(c.notes, Txt(<<"A", "d", "d", "e", "d", " ", "v", "i", "a", " ", "Q", "R", " ", "c", "o", "d", "e", " ", "s", "c", "a", "n">>)).s)
           signal(c) == OrText(OrText(c.name, c.email), c.phone).s # << >>
           Detected(parsed) ==
               /\ scanResult' = Txt(data)
               /\ isScanning' = FALSE
               /\ parsedData' = parsed
               /\ IF parsed.kind = "threw"
                  THEN /\ scanError' = "Could not parse QR code data"
                       /\ UNCHANGED <<route, contacts, cIsLoading, cError, cProcs,
                                      localStorage>>
                  ELSE IF parsed.kind = "contact" /\ signal(parsed.c)
                  THEN /\ AddContact(newContact(parsed.c))
                       /\ route' = "/contact/1700000000000"
                       /\ UNCHANGED scanError
                  ELSE /\ AddContact(Contact("1700000000000", NoUser,
                                              <<"U", "n", "k", "n", "o", "w", "n", " ", "C", "o", "n", "t", "a", "c", "t">>, data))
                       /\ route' = "/contact/1700000000000"
                       /\ UNCHANGED scanError
       IN IF Trim(data) = << >>
          THEN UNCHANGED <<scanVars, contacts, cIsLoading, cError, cProcs,
                           localStorage>>
          ELSE Detected(parseQrData(data))
    /\ UNCHANGED <<cameraPermission, user, profile, isLoading, error, loadingRef,
                   mountedRef, profilesDb, files, pProcs, hProcs, mounted, qrVars,
                   contactsDb, authVars>>

\* handleQrDetected(data), called by the manual-entry button with the text
\* the user typed: the whole handler, with the synchronous part of addContact,
\* stopCamera() and router.push.  Of the new contact the model keeps the id,
\* the name and the notes.
HandleQrDetected(data) ==
    /\ mounted
    /\ route = "/scan"
    /\ started < MaxOps
    /\ started' = started + 1
    /\ LET newContact(c) ==
               Contact("1700000000000", NoUser,
                       OrText(c.name, Txt(<<"U", "n", "k", "n", "o", "w", "n", " ", "C", "o", "n", "t", "a", "c", "t">>)).s,
                       OrText(c.notes, Txt(<<"A", "d", "d", "e", "d", " ", "v", "i", "a", " ", "Q", "R", " ", "c", "o", "d", "e", " ", "s", "c", "a", "n">>)).s)
           signal(c) == OrText(OrText(c.name, c.email), c.phone).s # << >>
           Detected(parsed) ==
               /\ scanResult' = Txt(data)
               /\ isScanning' = FALSE
               /\ parsedData' = parsed
               /\ IF parsed.kind = "threw"
                  THEN /\ scanError' = "Could not parse QR code data"
                       /\ UNCHANGED <<route, contacts, cIsLoading, cError, cProcs,
                                      localStorage>>
                  ELSE IF parsed.kind = "contact" /\ signal(parsed.c)
                  THEN /\ AddContact(newContact(parsed.c))
                       /\ route' = "/contact/1700000000000"
                       /\ UNCHANGED scanError
                  ELSE /\ scanError' =
                             "Could not extract contact information from QR code"
                       /\ UNCHANGED <<route, contacts, cIsLoading, cError, cProcs,
                                      localStorage>>
       IN IF Trim(data) = << >>
          THEN UNCHANGED <<scanVars, contacts, cIsLoading, cError, cProcs,
                           localStorage>>
          ELSE Detected(parseQrData(data))
    /\ UNCHANGED <<cameraPermission, user, profile, isLoading, error, loadingRef,
                   mountedRef, profilesDb, files, pProcs, hProcs, mounted, qrVars,
                   contactsDb, authVars>>

\* ------------------------------------------------------------ authentication
MaxAuthOps == 3

\* What the authentication hooks and the backend's account service leave
\* alone: all but the session, the hooks' state and the browser's cache.
beyondAuth ==
    <<user, profile, isLoading, error, loadingRef, mountedRef, profilesDb, files,
      pProcs, hProcs, mounted, qrVars, contactsVars, scanVars>>

\* The accounts created before the session starts: the users whose e-mail and
\* password are the given ones (one user, or none).
AccountOf(email, password) ==
    {u \in Users : UserEmail(u).s = email /\ "pw-" \o u = password}

\* What the login form submits: the credentials of each account, and userA's
\* e-mail with a wrong password.
Credentials ==
    {<<"alice@x.io", "pw-userA">>, <<"alice@x.io", "wrong">>,
     <<"bob@x.io", "pw-userB">>}

\* error.message of a rejected backend call: empty, or the backend's text.
ServerMessages == {"", "Invalid credentials"}

\* An invocation of a hook's function: the hook, the function, its position,
\* its arguments, and what it returned (a user, or NoUser for null).
AProc(hook, op, pc, email, password) ==
    [hook |-> hook, op |-> op, pc |-> pc, email |-> email,
     password |-> password, result |-> NoUser]

InitAuth ==
    /\ session = NoUser
    /\ auth = [user |-> NoUser, isLoading |-> TRUE, authError |-> NoError]
    /\ appwrite = [user |-> NoUser, loading |-> TRUE, error |-> NoError,
                   isLoggedIn |-> FALSE]
    /\ aProcs = << >>

\* checkUserSession() of AuthProvider, run once by its effect, and
\* checkAuthStatus() of useAppwrite, run by its effect and by its callers:
\* up to the await of the current user.
CheckUserSession(hook) ==
    /\ started < MaxAuthOps
    /\ started' = started + 1
    /\ IF hook = "useAuth"
       THEN /\ \A i \in DOMAIN aProcs :
                  ~(aProcs[i].hook = "useAuth" /\ aProcs[i].op = "check")
            /\ auth' = [auth EXCEPT !.isLoading = TRUE, !.authError = NoError]
            /\ UNCHANGED appwrite
       ELSE /\ appwrite' = [appwrite EXCEPT !.loading = TRUE]
            /\ UNCHANGED auth
    /\ aProcs' = Append(aProcs, AProc(hook, "check", "get", "", ""))
    /\ UNCHANGED <<session, localStorage, beyondAuth>>

\* login(email, password) of AuthProvider, up to the await of
\* createEmailPasswordSession in loginWithAppwrite.
Login(email, password) ==
    /\ started < MaxAuthOps
    /\ started' = started + 1
    /\ auth' = [auth EXCEPT !.isLoading = TRUE, !.authError = NoError]
    /\ aProcs' = Append(aProcs, AProc("useAuth", "login", "createSession",
                                      email, password))
    /\ UNCHANGED <<session, appwrite, localStorage, beyondAuth>>

\* logout() of AuthProvider or of useAppwrite, up to the await of the current
\* user in authService.logout.
Logout(hook) ==
    /\ started < MaxAuthOps
    /\ started' = started + 1
    /\ IF hook = "useAuth"
       THEN /\ auth' = [auth EXCEPT !.isLoading = TRUE, !.authError = NoError]
            /\ UNCHANGED appwrite
       ELSE /\ appwrite' = [appwrite EXCEPT !.loading = TRUE]
            /\ UNCHANGED auth
    /\ aProcs' = Append(aProcs, AProc(hook, "logout", "get", "", ""))
    /\ UNCHANGED <<session, localStorage, beyondAuth>>

\* A login that answers a rejected session with null instead of an exception.
CreateSessionAnswersNull(i, ok, message) ==
    /\ i \in DOMAIN aProcs
    /\ aProcs[i].pc = "createSession"
    /\ ok => AccountOf(aProcs[i].email, aProcs[i].password) # {}
    /\ IF ok
       THEN /\ session' = CHOOSE u \in AccountOf(aProcs[i].email,
                                                 aProcs[i].password) : TRUE
            /\ aProcs' = [aProcs EXCEPT ![i].pc = "get"]
            /\ UNCHANGED auth
       ELSE /\ auth' = [auth EXCEPT !.user = NoUser, !.isLoading = FALSE]
            /\ aProcs' = [aProcs EXCEPT ![i].pc = "done"]
            /\ UNCHANGED session
    /\ UNCHANGED <<appwrite, localStorage, started, beyondAuth>>

\* createEmailPasswordSession answers a login.  It creates the session only
\* for the e-mail and password of an account; rejected, authService.login and
\* loginWithAppwrite throw (the latter an Error with the backend's message, or
\* with its own text if there is none), and login() catches it, clears the
\* user, keeps the message and throws it on.
CreateSessionAnswers(i, ok, message) ==
    /\ i \in DOMAIN aProcs
    /\ aProcs[i].pc = "createSession"
    /\ ok => AccountOf(aProcs[i].email, aProcs[i].password) # {}
    /\ IF ok
       THEN /\ session' = CHOOSE u \in AccountOf(aProcs[i].email,
                                                 aProcs[i].password) : TRUE
            /\ aProcs' = [aProcs EXCEPT ![i].pc = "get"]
            /\ UNCHANGED auth
       ELSE /\ auth' = [auth EXCEPT
                  !.user = NoUser,
                  !.authError =
                      IF message # "" THEN message
                      ELSE "Login failed. Invalid email or password.",
                  !.isLoading = FALSE]
            /\ aProcs' = [aProcs EXCEPT ![i].pc = "threw"]
            /\ UNCHANGED session
    /\ UNCHANGED <<appwrite, localStorage, started, beyondAuth>>

\* account.get() answers authService.getCurrentUser(), which returns the user
\* of the session, or null if the call fails (as it does without a session).
\* A check or a login sets the hook's user to it and returns; authService.logout
\* removes the cached profile of that user and the guest's, and goes on to
\* delete the session.
GetAnswers(i, ok) ==
    /\ i \in DOMAIN aProcs
    /\ aProcs[i].pc = "get"
    /\ LET p == aProcs[i]
           currentUser == IF ok THEN session ELSE NoUser
       IN IF p.op = "logout"
          THEN /\ localStorage' =
                     [k \in DOMAIN localStorage |->
                         IF \/ k = "profile"
                            \/ currentUser # NoUser /\ k = ProfileKey(currentUser)
                         THEN NoItem ELSE localStorage[k]]
               /\ aProcs' = [aProcs EXCEPT ![i].pc = "deleteSession"]
               /\ UNCHANGED <<auth, appwrite>>
          ELSE /\ IF p.hook = "useAuth"
                  THEN /\ auth' = [auth EXCEPT !.user = currentUser,
                                               !.isLoading = FALSE]
                       /\ UNCHANGED appwrite
                  ELSE /\ appwrite' = [user |-> currentUser,
                                       isLoggedIn |-> currentUser # NoUser,
                                       error |-> NoError, loading |-> FALSE]
                       /\ UNCHANGED auth
               /\ aProcs' = [aProcs EXCEPT ![i].pc = "done",
                                           ![i].result = currentUser]
               /\ UNCHANGED localStorage
    /\ UNCHANGED <<session, started, beyondAuth>>

\* deleteSession('current') answers a logout.  Deleted: both hooks clear the
\* user.  Rejected: authService.logout and logoutFromAppwrite throw it on;
\* AuthProvider's logout catches it, clears the user all the same and keeps
\* the message; useAppwrite's logout keeps the error and throws, leaving its
\* user as it was.
DeleteSessionAnswers(i, ok, message) ==
    /\ i \in DOMAIN aProcs
    /\ aProcs[i].pc = "deleteSession"
    /\ session' = IF ok THEN NoUser ELSE session
    /\ IF aProcs[i].hook = "useAuth"
       THEN /\ auth' = [auth EXCEPT
                  !.user = NoUser,
                  !.authError =
                      IF ok THEN @
                      ELSE IF message # "" THEN message ELSE "Failed to logout.",
                  !.isLoading = FALSE]
            /\ aProcs' = [aProcs EXCEPT ![i].pc = IF ok THEN "done" ELSE "failed"]
            /\ UNCHANGED appwrite
       ELSE /\ appwrite' =
                  IF ok
                  THEN [user |-> NoUser, isLoggedIn |-> FALSE, error |-> NoError,
                        loading |-> FALSE]
                  ELSE [appwrite EXCEPT !.error = "Error: " \o message,
                                        !.loading = FALSE]
            /\ aProcs' = [aProcs EXCEPT ![i].pc = IF ok THEN "done" ELSE "threw"]
            /\ UNCHANGED auth
    /\ UNCHANGED <<localStorage, started, beyondAuth>>

\* ------------------------------------------------------------------- Spec
LocalStorageKeys == ProfileKeys \cup QrKeys \cup {"contacts"}

\* A guest profile an earlier visit may have left under the key 'profile'.
GuestProfile == [defaultProfile EXCEPT !.name = Str("Guest")]

InitStores ==
    /\ InitProfile
    /\ InitQr
    /\ InitContacts
    /\ InitScan
    /\ InitAuth
    /\ \E guest \in {NoItem, JsonItem(JsonStringify(GuestProfile))} :
          localStorage =
              [k \in LocalStorageKeys |-> IF k = "profile" THEN guest ELSE NoItem]

Init == InitStores /\ started = 0

\* The answers of the backend to the calls of the profile hook.
ProfileAnswers ==
    \E i \in 1..MaxOps :
        \/ LoadFetched(i)
        \/ LoadNotFound(i)
        \/ LoadFetchFailed(i)
        \/ LoadCreateReturns(i)
        \/ LoadFileChecked(i)
        \/ LoadPictureCleared(i)
        \/ UpdatePreGetReturns(i)
        \/ UpdateSucceeds(i)
        \/ UpdateNotFound(i)
        \/ UpdateFails(i)
        \/ UpdateCreateSucceeds(i)
        \/ UpdateCreateFails(i)

\* The profile provider on its own.
Next ==
    \/ Mount
    \/ Remount
    \/ \E u \in {"userA", NoUser} : SetUser(u)
    \/ \E data \in ProfileUpdates : UpdateProfile(data)
    \/ ProfileAnswers

Spec == Init /\ [][Next]_allVars

\* The profile provider under the picture handlers of the settings page.
NextPicture ==
    \/ Mount
    \/ \E u \in {"userA", NoUser} : SetUser(u)
    \/ \E file \in PickedFiles : HandleProfilePictureUpload(file)
    \/ RemoveProfilePicture
    \/ \E h \in 1..MaxOps :
          \/ UploadPreviousDeleted(h)
          \/ UploadReturns(h)
          \/ UploadVerified(h)
          \/ RemoveFileDeleted(h)
          \/ UpdateUrlGenerated(h)
    \/ ProfileAnswers

SpecPicture == Init /\ [][NextPicture]_allVars

\* The three providers of one page: their effects run in the same commit.
MountAll ==
    /\ ~mounted
    /\ mounted' = TRUE
    /\ mountedRef' = TRUE
    /\ InvokeLoadProfile(user, loadingRef)
    /\ InvokeLoadQrSettings(qrUser, authLoading)
    /\ InvokeLoadContacts(user)
    /\ UNCHANGED <<user, profilesDb, files, hProcs, started, qrUser, authLoading,
                   qrDb, contactsDb, scanVars, authVars>>

\* setUser(u) re-runs the effects of the profile and of the contacts provider.
SetUserAll(u) ==
    /\ mounted
    /\ u # user
    /\ started < MaxOps
    /\ started' = started + 1
    /\ user' = u
    /\ mountedRef' = TRUE
    /\ InvokeLoadProfile(u, FALSE)
    /\ InvokeLoadContacts(u)
    /\ UNCHANGED <<profilesDb, files, hProcs, mounted, qrVars, contactsDb, scanVars,
                   authVars>>

NextAll ==
    \/ MountAll
    \/ \E u \in {"userA", NoUser} : SetUserAll(u)
    \/ \E data \in ProfileUpdates : UpdateProfile(data)
    \/ ProfileAnswers
    \/ QrCheckAuthStatus
    \/ \E u \in {"userA", NoUser} : QrAuthResolved(u)
    \/ \E upd \in QrUpdates : UpdateQrSettings(upd)
    \/ \E data \in ContactUpdates : UpdateContact(data)
    \/ \E id \in ContactIds : DeleteContact(id)
    \/ \E i \in 1..MaxOps :
          \/ LoadQrListed(i)
          \/ \E code \in {404, 500} : LoadQrListFailed(i, code)
          \/ LoadQrCreateReturns(i)
          \/ UpdateQrListed(i)
          \/ UpdateQrWritten(i)
          \/ UpdateQrFails(i)
          \/ UpdateQrNotFound(i)
          \/ LoadContactsListed(i)
          \/ LoadContactsFailed(i)
          \/ UpdateContactSucceeds(i)
          \/ UpdateContactFails(i)
          \/ DeleteContactSucceeds(i)
          \/ DeleteContactFails(i)

\* The providers together, over runs of at most MaxAllOps invocations: the
\* count starts with the rest of the budget spent.
InitAll == InitStores /\ started = MaxOps - MaxAllOps

SpecAll == InitAll /\ [][NextAll]_allVars

\* The scan page over the providers: the page's camera effect, the manual
\* entry of a payload, and the answers to the contacts provider's calls, over
\* runs of at most MaxAllOps invocations.
NextScan ==
    \/ MountAll
    \/ \E u \in {"userA", NoUser} : SetUserAll(u)
    \/ \E granted \in BOOLEAN : StartCamera(granted)
    \/ \E i \in 1..MaxOps :
          \/ LoadContactsListed(i)
          \/ LoadContactsFailed(i)
          \/ AddContactSucceeds(i)
          \/ AddContactFails(i)
    \/ \E input \in Payloads : HandleQrDetected(input)

SpecScan == InitAll /\ [][NextScan]_allVars

\* The two authentication hooks over the backend's accounts and session.
NextAuth ==
    \/ \E hook \in {"useAuth", "useAppwrite"} :
          \/ CheckUserSession(hook)
          \/ Logout(hook)
    \/ \E c \in Credentials : Login(c[1], c[2])
    \/ \E i \in 1..MaxAuthOps, ok \in BOOLEAN :
          \/ \E message \in ServerMessages :
                \/ CreateSessionAnswers(i, ok, message)
                \/ DeleteSessionAnswers(i, ok, message)
          \/ GetAnswers(i, ok)

\* The profile and QR-settings collections play no part here: they start
\* empty.
InitAuthSpec ==
    /\ Init
    /\ files = {}
    /\ \A u \in Users : profilesDb[u] = NoDocEntry /\ qrDb[u] = NoQrEntry

SpecAuth == InitAuthSpec /\ [][NextAuth]_allVars

\* ----------------------------------------------------------------- claims
\* The positions of the create calls among the calls of an invocation.
CreateCalls(p) ==
    {k \in DOMAIN p.calls : p.calls[k].op = "createDocumentWithId"}

\* The built-in defaults with the name and the email of the user.
DefaultsFor(uid) ==
    [defaultProfile EXCEPT !.name = UserName(uid), !.email = UserEmail(uid)]

\* The cached profile under a key, read back; the defaults of no one when the
\* key holds no JSON.
CachedProfile(key) ==
    IF localStorage[key].kind = "json" THEN ParseProfile(localStorage[key].val)
    ELSE [f \in ProfileFields |-> Null]

\* What C1 asks of a step of invocation i of loadProfile.
C1_Step(i) ==
    LET p == pProcs[i]
        q == pProcs'[i]
    IN  /\ (p.kind = "loadProfile" /\ p.pc = "get" /\ q.notFound) =>
            /\ profile' = DefaultsFor(p.uid)
            /\ CachedProfile(ProfileKey(p.uid))' = DefaultsFor(p.uid)
            /\ Len(q.calls) = Len(p.calls) + 1
            /\ q.calls[Len(q.calls)].op = "createDocumentWithId"
            /\ q.calls[Len(q.calls)].id = p.uid
            /\ q.calls[Len(q.calls)].perms =
                  {<<"read", p.uid>>, <<"update", p.uid>>, <<"delete", p.uid>>}
        /\ (p.kind = "loadProfile" /\ p.pc = "create" /\ ~InFlight(q)) =>
            /\ profile' = profile
            /\ localStorage' = localStorage
            /\ q.calls = p.calls
            /\ q.pc = "failed" => error' = "Failed to initialize profile in database."

\* What C1 asks of the loads that have settled after a not-found fetch.
C1_Settled ==
    \A i \in DOMAIN pProcs :
        LET p == pProcs[i] IN
        (p.kind = "loadProfile" /\ p.notFound /\ ~InFlight(p)) =>
            /\ Cardinality(CreateCalls(p)) = 1
            /\ (Len(pProcs) = 1 /\ user = p.uid) =>
                  /\ profile = DefaultsFor(p.uid)
                  /\ CachedProfile(ProfileKey(p.uid)) = DefaultsFor(p.uid)

\* C1: a load whose fetch fails as not found sets the profile and the cache
\* entry profile_<userId> to the defaults with the user's name and email and
\* attempts exactly one create call (document id = user id, read, update and
\* delete permissions of that user); when the create returns, also with a
\* failure, the profile and the cache stay as they are, and a failure sets the
\* error string.  A load that settled this way with nothing else invoked has
\* left exactly those defaults.
C1_FirstLoadCreatesDefaults ==
    [][(\A i \in DOMAIN pProcs : C1_Step(i)) /\ C1_Settled']_allVars

\* C1 witness: a first load was answered not found, its create failed, and
\* the defaults of the user are still the profile.
C1_Witness ==
    /\ Len(pProcs) = 1
    /\ pProcs[1].kind = "loadProfile" /\ pProcs[1].notFound
    /\ pProcs[1].pc = "failed"
    /\ error = "Failed to initialize profile in database."
    /\ profile = DefaultsFor("userA")

\* C2: while a load of a user is in flight no second load of that user is in
\* flight: the later invocations of the load routine return without a fetch.
C2_OneLoadInFlight ==
    \A i, j \in DOMAIN pProcs :
        (/\ i # j
         /\ pProcs[i].kind = "loadProfile" /\ pProcs[j].kind = "loadProfile"
         /\ pProcs[i].uid = pProcs[j].uid)
        => ~(InFlight(pProcs[i]) /\ InFlight(pProcs[j]))

\* The invocation a step adds to a sequence of invocations, if it adds one.
Invoked(procs, procs2, kind) ==
    /\ Len(procs2) = Len(procs) + 1
    /\ procs2[Len(procs2)].kind = kind

\* A step invokes updateQrSettings: the merged settings are the state and the
\* cache entry of the user (or of the guest) once its synchronous head is over,
\* before any remote call answers.
C3_QrOptimistic ==
    Invoked(qProcs, qProcs', "updateQr") =>
        \E upd \in QrUpdates :
            /\ qrSettings' = Merge(qrSettings, upd)
            /\ localStorage'[QrKey(qrUser)] = JsonItem(Merge(qrSettings, upd))

\* A step invokes updateProfile and leaves the merged profile in the state and
\* in the cache entry of the user (or of the guest).
C3_ProfileOptimistic ==
    \E data \in ProfileUpdates :
        /\ profile' = Merge(profile, data)
        /\ CachedProfile(ProfileKey(user))' = Merge(profile, data)

\* The state and the cache are set from the document the backend holds after
\* the update or create of invocation i has answered.
C3_SetFromDocument(i) ==
    LET doc == profilesDb'[pProcs[i].uid].doc IN
    /\ \A f \in {"name", "title", "company", "email", "phone", "profilePictureId"} :
          profile'[f] = doc[f]
    /\ profile'.socials.t \in {"object", "null"}
    /\ CachedProfile(ProfileKey(pProcs[i].uid))' =
          [profile' EXCEPT !.profilePicture = Undefined]

ProfileUpdateFailsAt(i) ==
    /\ pProcs[i].kind = "updateProfile" /\ pProcs[i].pc = "update"
    /\ pProcs'[i].pc = "failed" /\ ~pProcs'[i].notFound
QrUpdateFailsAt(i) ==
    /\ qProcs[i].kind = "updateQr" /\ InFlight(qProcs[i])
    /\ qProcs'[i].pc = "failed" /\ ~qProcs'[i].notFound
ContactWriteFailsAt(i) ==
    /\ cProcs[i].kind \in {"updateContact", "deleteContact"} /\ InFlight(cProcs[i])
    /\ cProcs'[i].pc = "failed"

\* The profile and the QR-settings hook at such a step: the save-failure error
\* is set, the state and the cache stay as they are.
C4_ProfileAndQrKeep ==
    /\ \A i \in DOMAIN pProcs : ProfileUpdateFailsAt(i) =>
          /\ error' = "Failed to save profile to database (update failed)."
          /\ profile' = profile /\ localStorage' = localStorage
    /\ \A i \in DOMAIN qProcs : QrUpdateFailsAt(i) =>
          /\ qrError' = "Failed to save QR settings to database."
          /\ qrSettings' = qrSettings /\ localStorage' = localStorage

OneCreateFollows(calls, uid) ==
    \E k \in DOMAIN calls :
        /\ k > 1
        /\ calls[k - 1].op = "updateDocument"
        /\ calls[k].op = "createDocumentWithId"
        /\ \A j \in DOMAIN calls : calls[j].op = "createDocumentWithId" => j = k
        /\ calls[k].id = uid
        /\ calls[k].payload = calls[k - 1].payload
        /\ calls[k].perms = {<<"read", uid>>, <<"update", uid>>, <<"delete", uid>>}

\* updateProfile after its update was answered as not found: the one create
\* call; when it succeeds state and cache are set from the created document;
\* when it fails the error is set and nothing more is written.
C5_Profile ==
    /\ \A i \in DOMAIN pProcs' :
          (pProcs'[i].kind = "updateProfile" /\ pProcs'[i].notFound) =>
              OneCreateFollows(pProcs'[i].calls, pProcs'[i].uid)
    /\ \A i \in DOMAIN pProcs :
          (pProcs[i].kind = "updateProfile" /\ pProcs[i].pc = "create"
           /\ pProcs'[i] # pProcs[i]) =>
              IF pProcs'[i].pc = "failed"
              THEN /\ error' = "Failed to save profile to database (creation failed)."
                   /\ pProcs'[i].calls = pProcs[i].calls
                   /\ profilesDb' = profilesDb
                   /\ profile' = profile /\ localStorage' = localStorage
              ELSE /\ profilesDb'[pProcs[i].uid].exists
                   /\ C3_SetFromDocument(i)

C6_ProfileLocalOnly ==
    (Invoked(pProcs, pProcs', "updateProfile") /\ user = NoUser) =>
        /\ pProcs'[Len(pProcs')].calls = << >>
        /\ ~InFlight(pProcs'[Len(pProcs')])
        /\ C3_ProfileOptimistic
        /\ profilesDb' = profilesDb
        /\ error' = "User not authenticated. Profile not saved."
C6_QrLocalOnly ==
    (Invoked(qProcs, qProcs', "updateQr") /\ qrUser = NoUser) =>
        /\ qProcs'[Len(qProcs')].calls = << >>
        /\ ~InFlight(qProcs'[Len(qProcs')])
        /\ C3_QrOptimistic
        /\ qrDb' = qrDb

Absent(v) == v.t \in {"null", "undefined"}

\* An updateProfile that removes the picture id its profile had.
RemovesPicture(p) ==
    /\ p.kind = "updateProfile" /\ p.uid # NoUser
    /\ Truthy(p.prof.profilePictureId)
    /\ (Absent(p.full.profilePictureId) \/ p.full.profilePictureId = Str(""))

\* A step in which getDocument of load i answers with the document.
Fetches(i) ==
    /\ pProcs[i].kind = "loadProfile" /\ pProcs[i].pc = "get"
    /\ pProcs'[i].pc \in {"getFile", "done"}

\* C7: an update that removes a set profilePictureId (undefined, null or '')
\* carries an explicit null for it in the remote payload; once it is persisted
\* the document holds null and the state reads the id as absent; a load that
\* fetches a document holding null reads the id as absent; the id in the state
\* and in the document is never the string "undefined".
C7_RemovedPictureIdReadsAbsent ==
    [][/\ \A i \in DOMAIN pProcs' :
             (RemovesPicture(pProcs'[i]) /\ pProcs'[i].pc = "update") =>
                 LET call == pProcs'[i].calls[Len(pProcs'[i].calls)] IN
                 /\ call.op = "updateDocument"
                 /\ call.payload.profilePictureId = Null
       /\ \A i \in DOMAIN pProcs :
             (RemovesPicture(pProcs[i]) /\ pProcs[i].pc \in {"update", "create"}
              /\ pProcs'[i].pc = "done") =>
                 /\ profilesDb'[pProcs[i].uid].doc.profilePictureId = Null
                 /\ Absent(profile'.profilePictureId)
                 /\ profile'.profilePictureId # pProcs[i].prof.profilePictureId
       /\ \A i \in DOMAIN pProcs :
             (Fetches(i) /\ profilesDb[pProcs[i].uid].doc.profilePictureId = Null) =>
                 /\ pProcs'[i].pc = "done"
                 /\ Absent(profile'.profilePictureId)
       /\ profile'.profilePictureId # Str("undefined")
       /\ \A u \in Users : profilesDb'[u].doc.profilePictureId # Str("undefined")
      ]_allVars

\* C7 witness: the first load read a stored picture id, the second invocation
\* removed it and was persisted, the third invocation loaded again, and the
\* profile has no picture id.
C7_Witness ==
    /\ Len(pProcs) = 3
    /\ pProcs[1].kind = "loadProfile" /\ pProcs[1].pc = "done"
    /\ RemovesPicture(pProcs[2]) /\ pProcs[2].pc = "done"
    /\ pProcs[2].prof.profilePictureId = Str(OldFile)
    /\ pProcs[3].kind = "loadProfile" /\ pProcs[3].pc = "done"
    /\ profilesDb["userA"].doc.profilePictureId = Null
    /\ Absent(profile.profilePictureId)

\* C8: an update with socials = {} stores "{}" and leaves {} in the state;
\* a document that holds "{}" decodes to {} whether the backend hands it out
\* as the JSON string or as a native object, with no parse error, and a load
\* that fetches it sets socials to {}.
C8_EmptySocialsRoundTrip ==
    [][/\ \A i \in DOMAIN pProcs :
             (pProcs[i].kind = "updateProfile"
              /\ pProcs[i].full.socials = Obj(NoSocials)
              /\ pProcs[i].pc \in {"update", "create"}
              /\ pProcs'[i].pc \in {"done", "genUrl"}) =>
                 /\ profilesDb'[pProcs[i].uid].doc.socials = Str("{}")
                 /\ profile'.socials = Obj(NoSocials)
       /\ \A i \in DOMAIN pProcs :
             (Fetches(i) /\ profilesDb[pProcs[i].uid].doc.socials = Str("{}")) =>
                 IF pProcs'[i].pc = "done"
                 THEN profile'.socials = Obj(NoSocials)
                 ELSE pProcs'[i].prof.socials = Obj(NoSocials)
       /\ \A i \in DOMAIN pProcs :
             (pProcs[i].kind = "loadProfile"
              /\ pProcs[i].pc \in {"getFile", "clearPic"}
              /\ pProcs'[i].pc = "done") =>
                 profile'.socials = pProcs[i].prof.socials
       /\ \A u \in Users :
             profilesDb'[u].doc.socials = Str("{}") =>
                 \A native \in BOOLEAN :
                     LET doc == ReadDoc(profilesDb'[u].doc, native) IN
                     /\ doc.socials.t = "string" => JsonParses(doc.socials.s)
                     /\ loadedProfile(doc, u).socials = Obj(NoSocials)
      ]_allVars

\* C8 witness: the profile had a social link, the second invocation updated
\* socials to {} and was persisted, the third invocation loaded again, and the
\* socials of the profile are the empty map.
C8_Witness ==
    /\ Len(pProcs) = 3
    /\ pProcs[2].kind = "updateProfile" /\ pProcs[2].pc = "done"
    /\ pProcs[2].prof.socials = Obj(OneSocial)
    /\ pProcs[2].full.socials = Obj(NoSocials)
    /\ pProcs[3].kind = "loadProfile" /\ pProcs[3].pc = "done"
    /\ profilesDb["userA"].doc.socials = Str("{}")
    /\ profile.socials = Obj(NoSocials)

\* C9: an upload of a file of a type that is not allowed, or of more than
\* 5 MB, is rejected before any network call: the handler has failed without
\* a call to the storage service and without a profile update.
C9_InvalidFileMakesNoCall ==
    \A h \in DOMAIN hProcs :
        (/\ hProcs[h].kind = "upload"
         /\ \/ hProcs[h].file.type
                  \notin {"image/jpeg", "image/png", "image/gif", "image/webp"}
            \/ hProcs[h].file.size > 5 * 1024 * 1024)
        => /\ hProcs[h].pc = "failed"
           /\ hProcs[h].calls = << >>
           /\ hProcs[h].upd = 0

\* C10: once the deletion of the file has answered, with whatever outcome,
\* removeProfilePicture has issued the profile update that clears the id.
C10_RemoveAlwaysUpdates ==
    \A h \in DOMAIN hProcs :
        (hProcs[h].kind = "remove" /\ hProcs[h].pc # "delete")
        => /\ hProcs[h].upd \in DOMAIN pProcs
           /\ pProcs[hProcs[h].upd].kind = "updateProfile"

\* ------------------------------------------------- corrupt cache entries
\* The cache entries another program version or the user may have left
\* unparseable: the user's QR settings, the guest's, the guest profile, the
\* contacts.
CorruptibleKeys == {QrKey("userA"), QrKey(NoUser), "profile", "contacts"}

InitCorrupt ==
    /\ InitProfile
    /\ InitQr
    /\ InitContacts
    /\ InitScan
    /\ InitAuth
    /\ started = MaxOps - MaxAllOps
    /\ \E corrupt \in SUBSET CorruptibleKeys :
          localStorage =
              [k \in LocalStorageKeys |-> IF k \in corrupt THEN BadItem ELSE NoItem]

\* The three providers over a browser whose cache may hold unparseable entries.
SpecCorrupt == InitCorrupt /\ [][NextAll]_allVars

\* C11: no load or update of the three hooks lets an exception escape: no
\* invocation ends by throwing.
C11_NoExceptionEscapes ==
    /\ \A i \in DOMAIN pProcs : pProcs[i].pc # "threw"
    /\ \A i \in DOMAIN qProcs : qProcs[i].pc # "threw"
    /\ \A i \in DOMAIN cProcs : cProcs[i].pc # "threw"

\* ------------------------------------------------------------ scan claims
\* The rule that comes first, in the order of the dispatch policy, among the
\* rules a payload satisfies.
FirstRule(data) ==
    LET trimmed == Trim(data)
    IN IF StartsWith(data, <<"B", "E", "G", "I", "N", ":", "V", "C", "A", "R", "D">>) THEN "vcard"
       ELSE IF StartsWith(data, <<"M", "E", "C", "A", "R", "D", ":">>) THEN "mecard"
       ELSE IF /\ StartsWith(trimmed, <<"{">>)
               /\ trimmed[Len(trimmed)] = "}"
               /\ parseJsonObject(data).ok
       THEN "json"
       ELSE IF StartsWith(data, <<"h", "t", "t", "p">>) THEN "url"
       ELSE IF Includes(data, <<"@">>) /\ Includes(data, <<".">>) THEN "email"
       ELSE IF \A i \in DOMAIN data :
                  data[i] \in {"+", "0", "1", "2", "3", "4", "5", "6", "7", "8",
                               "9", " ", "-", "(", ")"}
       THEN "phone"
       ELSE "text"

\* What the parser returned is what the given rule makes of the payload.
HandledBy(rule, data, parsed) ==
    /\ parsed.kind = "contact"
    /\ CASE rule = "vcard" -> parsed.c = parseVCard(data)
         [] rule = "mecard" -> parsed.c = parseMeCard(data)
         [] rule = "json" -> parsed.c = jsonContact(parseJsonObject(data).o)
         [] rule = "url" ->
                /\ \E platform \in {"linkedin", "twitter", "instagram", "facebook",
                                    "website"} :
                      parsed.c.socials = {<<platform, data>>}
                /\ parsed.c.name.s # << >>
                /\ parsed.c.email = NoText /\ parsed.c.phone = NoText
         [] rule = "email" ->
                /\ parsed.c.name = Txt(<<"E", "m", "a", "i", "l", " ", "C", "o", "n", "t", "a", "c", "t">>)
                /\ parsed.c.email = Txt(data)
                /\ parsed.c.phone = NoText /\ parsed.c.notes = NoText
         [] rule = "phone" ->
                /\ parsed.c.name = Txt(<<"P", "h", "o", "n", "e", " ", "C", "o", "n", "t", "a", "c", "t">>)
                /\ parsed.c.phone = Txt(data)
                /\ parsed.c.email = NoText /\ parsed.c.notes = NoText
         [] rule = "text" ->
                /\ parsed.c.name = Txt(<<"T", "e", "x", "t", " ", "N", "o", "t", "e">>)
                /\ parsed.c.notes = Txt(data)
                /\ parsed.c.email = NoText /\ parsed.c.phone = NoText

\* C12: every non-empty payload the page has scanned was classified by the
\* first rule of the dispatch order that it satisfies, and by that rule only:
\* the parser returned the contact which that rule makes of it.
C12_FirstMatchingRuleWins ==
    scanResult.def =>
        HandledBy(FirstRule(scanResult.s), scanResult.s, parsedData)


\* The value of the first FN line of a vCard text, verbatim: the text between
\* the first colon of the first line that starts with FN (followed by ":" or
\* by ";" and parameters) and the end of that line.
FirstFN(data) ==
    LET starts == {i \in 1..Len(data) - 2 :
                      /\ i = 1 \/ data[i - 1] \in {"\n", "\r"}
                      /\ SubSeq(data, i, i + 1) = <<"F", "N">>
                      /\ data[i + 2] \in {":", ";"}}
        start == CHOOSE i \in starts : \A j \in starts : i <= j
        colon == CHOOSE i \in start..Len(data) :
                    /\ data[i] = ":"
                    /\ \A j \in start..(i - 1) : data[j] # ":"
        ends == {i \in colon..Len(data) + 1 :
                    i = Len(data) + 1 \/ data[i] \in {"\n", "\r"}}
        end == CHOOSE i \in ends : \A j \in ends : i <= j
    IN IF starts = {} THEN NoText ELSE Txt(SubSeq(data, colon + 1, end - 1))

\* C13: when the page has scanned a vCard that has an FN line, the name of the
\* parsed contact is the value of the first FN line, verbatim, whatever lines
\* precede it and whatever characters the value holds.
C13_NameIsFirstFN ==
    /\ scanResult.def
    /\ StartsWith(scanResult.s, <<"B", "E", "G", "I", "N", ":", "V", "C", "A", "R", "D">>)
    /\ FirstFN(scanResult.s).def
    => /\ parsedData.kind = "contact"
       /\ parsedData.c.name = FirstFN(scanResult.s)


\* The value of a MeCard field, verbatim: all the text after the colon that
\* ends the key, in the last field of that key that has such text.
MeCardValue(data, key) ==
    LET fields == Split(SubSeq(data, 8, Len(data)), ";")
        hits == {k \in DOMAIN fields :
                    /\ StartsWith(fields[k], key \o <<":">>)
                    /\ Len(fields[k]) > Len(key) + 1}
        last == CHOOSE k \in hits : \A j \in hits : j <= k
    IN IF hits = {} THEN NoText
       ELSE Txt(SubSeq(fields[last], Len(key) + 2, Len(fields[last])))

\* C14: when the page has scanned a MeCard, the contact's name is the N value
\* with its comma replaced by one space, its phone and email are the TEL and
\* EMAIL values, and a field with nothing after its colon sets nothing.
C14_MeCardFieldsCopied ==
    /\ scanResult.def
    /\ StartsWith(scanResult.s, <<"M", "E", "C", "A", "R", "D", ":">>)
    => LET n == MeCardValue(scanResult.s, <<"N">>)
           comma == IndexOf(n.s, ",")
           name == IF comma = 0 THEN n
                   ELSE Txt(SubSeq(n.s, 1, comma - 1) \o <<" ">>
                               \o SubSeq(n.s, comma + 1, Len(n.s)))
       IN /\ parsedData.kind = "contact"
          /\ parsedData.c.name = name
          /\ parsedData.c.phone = MeCardValue(scanResult.s, <<"T", "E", "L">>)
          /\ parsedData.c.email = MeCardValue(scanResult.s, <<"E", "M", "A", "I", "L">>)


\* C15: when the page has scanned a URL whose hostname contains linkedin.com,
\* the parsed contact's socials hold the scanned text itself under linkedin and
\* the contact's name is "LinkedIn Contact".
C15_LinkedInUrl ==
    /\ scanResult.def
    /\ FirstRule(scanResult.s) = "url"
    /\ parseUrl(scanResult.s).ok
    /\ Includes(parseUrl(scanResult.s).hostname, <<"l", "i", "n", "k", "e", "d", "i", "n", ".", "c", "o", "m">>)
    => /\ parsedData.kind = "contact"
       /\ <<"linkedin", scanResult.s>> \in parsedData.c.socials
       /\ \A e \in parsedData.c.socials : e[1] = "linkedin" => e[2] = scanResult.s
       /\ parsedData.c.name = Txt(<<"L", "i", "n", "k", "e", "d", "I", "n", " ", "C", "o", "n", "t", "a", "c", "t">>)

\* A LinkedIn URL with upper-case letters in its host has been scanned and
\* the contact made of it is being saved.
C15_Witness ==
    /\ scanResult = Txt(<<"h", "t", "t", "p", "s", ":", "/", "/", "w", "w", "w", ".", "L", "i", "n", "k", "e", "d", "I", "n", ".", "c", "o", "m", "/", "i", "n", "/", "j", "@", "x", ".", "i", "o">>)
    /\ parsedData.kind = "contact"
    /\ parsedData.c.socials # {}
    /\ route = "/contact/1700000000000"


\* The canonical key of a JSON member key: name for fn and fullName, phone
\* for tel, company for organization, title for jobTitle.
CanonicalKey(key) ==
    CASE key \in {<<"f", "n">>, <<"f", "u", "l", "l", "N", "a", "m", "e">>} -> <<"n", "a", "m", "e">>
      [] key = <<"t", "e", "l">> -> <<"p", "h", "o", "n", "e">>
      [] key = <<"o", "r", "g", "a", "n", "i", "z", "a", "t", "i", "o", "n">> -> <<"c", "o", "m", "p", "a", "n", "y">>
      [] key = <<"j", "o", "b", "T", "i", "t", "l", "e">> -> <<"t", "i", "t", "l", "e">>
      [] OTHER -> key

\* The object with every alias key replaced by its canonical key.
Canonical(jsonData) ==
    [key \in {CanonicalKey(k) : k \in DOMAIN jsonData} |->
        jsonData[CHOOSE k \in DOMAIN jsonData : CanonicalKey(k) = key]]

\* C16: when the page has scanned a JSON object, the parsed contact is the one
\* parsed from the same object with each alias key (fn, fullName, tel,
\* organization, jobTitle) written as its canonical key.
C16_AliasAsCanonical ==
    /\ scanResult.def
    /\ FirstRule(scanResult.s) = "json"
    => /\ parsedData.kind = "contact"
       /\ parsedData.c = jsonContact(Canonical(parseJsonObject(scanResult.s).o))


\* C17: parseQrData never throws: whatever the page has scanned, the call
\* ended with a contact or with null; and had it ended with an exception, the
\* page would show the could-not-parse error and still be the scan page.
C17_ParserNeverThrows ==
    /\ parsedData.kind \in {"none", "contact", "null"}
    /\ parsedData.kind = "threw" =>
          /\ scanError = "Could not parse QR code data"
          /\ route = "/scan"


\* The parser ended with null, or with a contact that has no name, no e-mail
\* and no phone.
NoSignal(parsed) ==
    \/ parsed.kind = "null"
    \/ /\ parsed.kind = "contact"
       /\ OrText(OrText(parsed.c.name, parsed.c.email), parsed.c.phone).s = << >>

\* C18 as claimed: when the parser extracted no signal from the scanned text,
\* the handler stored a contact whose notes are that text: such a contact is
\* held by the contacts hook or is being created by addContact.
C18_FallbackStoresRawText ==
    /\ scanResult.def
    /\ NoSignal(parsedData)
    => \/ \E k \in DOMAIN contacts : contacts[k].notes = scanResult.s
       \/ \E i \in DOMAIN cProcs :
             /\ cProcs[i].kind = "addContact"
             /\ cProcs[i].pc = "create"
             /\ cProcs[i].data.notes = scanResult.s

\* C18: a call of handleQrDetected after which the parser's result for the
\* scanned text has no signal stores nothing: it leaves the contacts, the
\* calls of addContact and the page as they are, and it sets the
\* could-not-extract error (or, for a blank text, returns having changed
\* nothing).
C18_NoSignalSetsError ==
    [][(/\ started' # started
        /\ user' = user
        /\ scanResult'.def
        /\ NoSignal(parsedData'))
       => /\ contacts' = contacts
          /\ cProcs' = cProcs
          /\ localStorage' = localStorage
          /\ route' = route
          /\ \/ scanError' = "Could not extract contact information from QR code"
             \/ UNCHANGED scanVars]_allVars

\* A MeCard whose fields are all empty has been scanned by a signed-in user
\* whose contacts are loaded: the parser returned a contact without signal.
C18_Witness ==
    /\ scanResult = Txt(<<"M", "E", "C", "A", "R", "D", ":", "N", ":", ";", "T", "E", "L", ":", ";", ";">>)
    /\ parsedData.kind = "contact"
    /\ NoSignal(parsedData)
    /\ scanError = "Could not extract contact information from QR code"
    /\ user = "userA"
    /\ Len(contacts) = 2


C20_LogoutClearsSession ==
    [][\A i \in DOMAIN aProcs :
          LET p == aProcs[i]
              q == aProcs'[i]
          IN /\ p.pc = "createSession" /\ q.pc = "get" =>
                   session' \in AccountOf(p.email, p.password)
             /\ p.op = "check" /\ p.pc = "get" /\ q.pc = "done" =>
                   q.result \in {session, NoUser}
             /\ p.op = "logout" /\ p.pc = "deleteSession" /\ ~InFlight(q) =>
                   /\ session' = NoUser
                   /\ IF p.hook = "useAuth" THEN auth'.user = NoUser
                      ELSE appwrite'.user = NoUser]_allVars


\* ------------------------------------------------------ concurrency claims
\* C21: when the create call of a load loses to a concurrent create and the
\* backend answers with a conflict, the hook sets no error and keeps its
\* state; for the profile hook and for the QR-settings hook.
C21_ConflictIsNotFatal ==
    [][/\ \A i \in DOMAIN pProcs :
             /\ pProcs[i].kind = "loadProfile" /\ pProcs[i].pc = "create"
             /\ pProcs'[i].pc = "conflict"
             => error' = error /\ profile' = profile
       /\ \A i \in DOMAIN qProcs :
             /\ qProcs[i].kind = "loadQr" /\ qProcs[i].pc = "create"
             /\ qProcs'[i].pc = "conflict"
             => qrError' = qrError /\ qrSettings' = qrSettings]_allVars

\* ------------------------------------------------------------- teardown
\* The provider is torn down: the effect's cleanup runs and its body does not
\* run again.  The calls in flight keep their closures, with the setters of
\* the provider's state in them.
Unmount ==
    /\ mounted /\ mountedRef
    /\ mountedRef' = FALSE
    /\ loadingRef' = FALSE
    /\ UNCHANGED <<user, profile, isLoading, error, localStorage, profilesDb,
                   files, pProcs, hProcs, started, mounted, others>>

\* The profile provider until and after its teardown: no effect and no
\* handler runs on a provider that was torn down, the answers of the calls in
\* flight still arrive.
NextUnmount ==
    \/ Mount
    \/ mountedRef /\ Remount
    \/ \E u \in {"userA", NoUser} : mountedRef /\ SetUser(u)
    \/ \E data \in ProfileUpdates : mountedRef /\ UpdateProfile(data)
    \/ Unmount
    \/ ProfileAnswers

SpecUnmount == Init /\ [][NextUnmount]_allVars

\* C22: once the provider is torn down, the completion of a load in flight
\* calls none of setProfile, setError and setIsLoading: profile, error and
\* isLoading keep the values they had at the teardown.
C22_NoUpdateAfterUnmount ==
    [][~mountedRef =>
          /\ profile' = profile
          /\ error' = error
          /\ isLoading' = isLoading]_allVars

\* ---------------------------------------------------- more parser claims
\* A vCard text with its continuation lines joined to the lines they
\* continue: each line break that is followed by a space is removed together
\* with the white space after it.
RECURSIVE Unfolded(_)
Unfolded(data) ==
    LET folds == {i \in 1..Len(data) - 1 :
                     data[i] \in {"\n", "\r"} /\ data[i + 1] = " "}
        i == CHOOSE k \in folds : \A j \in folds : k <= j
        inked == {k \in (i + 1)..Len(data) : data[k] \notin {" ", "\t"}}
        next == CHOOSE k \in inked : \A j \in inked : k <= j
    IN IF folds = {} THEN data
       ELSE IF inked = {} THEN SubSeq(data, 1, i - 1)
       ELSE SubSeq(data, 1, i - 1) \o Unfolded(SubSeq(data, next, Len(data)))

\* C23: when the page has scanned a vCard, a line that starts with a space
\* is appended to the value of the property before it: the contact is the
\* one of the same vCard with every such line joined to the line it continues.
C23_ContinuationAppended ==
    /\ scanResult.def
    /\ StartsWith(scanResult.s, <<"B", "E", "G", "I", "N", ":", "V", "C", "A", "R", "D">>)
    => /\ parsedData.kind = "contact"
       /\ parsedData.c = parseVCard(Unfolded(scanResult.s))

\* C24: when the page has scanned a MeCard with a URL field, the website of
\* the contact's socials is all the text after the first colon of the field,
\* further colons included.
C24_MeCardUrlComplete ==
    /\ scanResult.def
    /\ StartsWith(scanResult.s, <<"M", "E", "C", "A", "R", "D", ":">>)
    /\ MeCardValue(scanResult.s, <<"U", "R", "L">>).def
    => /\ parsedData.kind = "contact"
       /\ parsedData.c.socials = {<<"website", MeCardValue(scanResult.s, <<"U", "R", "L">>).s>>}

\* ------------------------------------------------------ change of account
\* The profile provider while the signed-in account changes, between the two
\* accounts and the guest: each change runs the effect's cleanup and starts
\* a load, and the answers of the loads arrive in any order.
NextSwitch ==
    \/ Mount
    \/ \E u \in Users \cup {NoUser} : SetUser(u)
    \/ \E i \in 1..MaxOps :
          \/ LoadFetched(i)
          \/ LoadNotFound(i)
          \/ LoadFetchFailed(i)
          \/ LoadCreateReturns(i)
          \/ LoadFileChecked(i)
          \/ LoadPictureCleared(i)

SpecSwitch == Init /\ [][NextSwitch]_allVars

\* All loads of the provider have settled, and those of account u succeeded.
LoadsSettledFor(u) ==
    /\ user = u
    /\ \A i \in DOMAIN pProcs : ~InFlight(pProcs[i])
    /\ \E i \in DOMAIN pProcs : pProcs[i].uid = u
    /\ \A i \in DOMAIN pProcs : pProcs[i].uid = u => pProcs[i].pc = "done"

\* C25: when the account changes from userA to userB while userA's load is
\* in flight, userB's load is started at once; the answer of userA's load
\* never changes the in-memory profile; and once all loads have settled the
\* in-memory profile and the cache entry profile_userB hold userB's data.
C25_SwitchKeepsNewAccount ==
    [][/\ user = "userA" /\ user' = "userB"
          => /\ Len(pProcs') = Len(pProcs) + 1
             /\ pProcs'[Len(pProcs')].uid = "userB"
             /\ InFlight(pProcs'[Len(pProcs')])
       /\ \A i \in DOMAIN pProcs :
             /\ user = "userB" /\ pProcs[i].uid = "userA"
             /\ pProcs'[i] # pProcs[i]
             => profile' = profile
       /\ LoadsSettledFor("userB")'
          => /\ profile'.email = UserEmail("userB")
             /\ localStorage'[ProfileKey("userB")].kind = "json"
             /\ ParseProfile(localStorage'[ProfileKey("userB")].val).email
                   = UserEmail("userB")]_allVars

\* ------------------------------------------------------------ batch delete
\* The selections of the contacts page: both contacts, in either order.
Selections == {s \in [1..2 -> ContactIds] : s[1] # s[2]}

\* handleDeleteSelected with selectedContacts = selected: forEach calls
\* deleteContact(id) for each id without awaiting it, so every call runs up
\* to its first await within the handler, and all of them read the contacts
\* of the one render the handler was created in.  Signed in, each call runs
\* setContacts with an updater and issues deleteDocument; signed out, each
\* call runs setContacts and the cache write with the contacts of the render
\* without its own id, and the last call's value stays.
HandleDeleteSelected(selected) ==
    /\ mounted
    /\ Len(selected) # 0
    /\ \A k \in DOMAIN selected :
          \E n \in DOMAIN contacts : contacts[n].id = selected[k]
    /\ started + Len(selected) <= MaxOps
    /\ started' = started + Len(selected)
    /\ IF user = NoUser
       THEN /\ cError' = "User not authenticated. Contact deletion failed."
            /\ contacts' = WithoutContact(contacts, selected[Len(selected)])
            /\ localStorage' =
                  [localStorage EXCEPT !["contacts"] =
                      JsonItem(WithoutContact(contacts, selected[Len(selected)]))]
            /\ UNCHANGED <<cIsLoading, cProcs>>
       ELSE /\ cIsLoading' = TRUE
            /\ cError' = NoError
            /\ contacts' =
                  SelectSeq(contacts,
                            LAMBDA c : \A k \in DOMAIN selected : c.id # selected[k])
            /\ cProcs' = cProcs \o
                  [k \in DOMAIN selected |->
                      CProc("deleteContact", "delete", user, contacts,
                            [id |-> selected[k], name |-> << >>],
                            <<CCall("deleteDocument", selected[k])>>)]
            /\ UNCHANGED localStorage
    /\ UNCHANGED <<contactsDb, mounted, vars_profile, qrVars>>

\* The contacts provider under the batch delete of the contacts page.
NextBatch ==
    \/ MountAll
    \/ \E u \in {"userA", NoUser} : SetUserAll(u)
    \/ \E selected \in Selections : HandleDeleteSelected(selected)
    \/ \E i \in 1..MaxOps :
          \/ LoadContactsListed(i)
          \/ LoadContactsFailed(i)
          \/ DeleteContactSucceeds(i)
          \/ DeleteContactFails(i)

SpecBatch == Init /\ [][NextBatch]_allVars

\* The ids of a list of contacts, and the deletes of the batch by outcome.
IdsOf(list) == {list[k].id : k \in DOMAIN list}
Deletes(how) ==
    {cProcs[i].calls[1].id :
        i \in {k \in DOMAIN cProcs :
                  cProcs[k].kind = "deleteContact" /\ cProcs[k].pc = how}}

\* C26: once every delete of a batch has returned, no contact whose remote
\* delete succeeded is in the in-memory list or in the cached list, and if
\* exactly one delete failed, that contact is back in the list and no other.
C26_BatchDeleteRemovesAll ==
    /\ Deletes("delete") = {}
    /\ Deletes("done") \cup Deletes("failed") # {}
    /\ Cardinality(Deletes("failed")) <= 1
    /\ \A i \in DOMAIN cProcs : cProcs[i].pc # "list"
    => /\ IdsOf(contacts) \cap Deletes("done") = {}
       /\ localStorage["contacts"].kind = "json"
       /\ IdsOf(localStorage["contacts"].val) \cap Deletes("done") = {}
       /\ Deletes("failed") \subseteq IdsOf(contacts)

\* ------------------------------------------------- back-to-back QR updates
\* updateQrSettings(first) and updateQrSettings(second) called one after the
\* other by one handler: each runs up to its first await, and both read the
\* qrSettings of the render the handler was created in.  setQrSettings and
\* the cache write of the second call come last.
UpdateQrSettingsTwice(first, second) ==
    /\ mounted
    /\ started + 2 <= MaxOps
    /\ started' = started + 2
    /\ LET newSettings(upd) == Merge(qrSettings, upd)
           invoked(upd) ==
               IF qrUser = NoUser
               THEN QSettled(QProc("updateQr", "done", qrUser, NoItem,
                                   newSettings(upd), << >>), "done")
               ELSE QProc("updateQr", "list", qrUser, NoItem, newSettings(upd),
                          <<QCall("listDocuments", qrUser, NoQrPayload, {})>>)
       IN /\ qrSettings' = newSettings(second)
          /\ localStorage' =
                [localStorage EXCEPT ![QrKey(qrUser)] = JsonItem(newSettings(second))]
          /\ qProcs' = qProcs \o <<invoked(first), invoked(second)>>
          /\ qrError' = IF qrUser = NoUser THEN qrError ELSE NoError
    /\ UNCHANGED <<qrUser, authLoading, qrIsLoading, qrDb, mounted,
                   vars_profile, contactsVars>>

\* The QR-settings hook under pairs of updates of different fields.
NextQrTwice ==
    \/ MountAll
    \/ QrCheckAuthStatus
    \/ \E u \in {"userA", NoUser} : QrAuthResolved(u)
    \/ \E first, second \in QrUpdates :
          first # second /\ UpdateQrSettingsTwice(first, second)
    \/ \E i \in 1..MaxOps :
          \/ LoadQrListed(i)
          \/ \E code \in {404, 500} : LoadQrListFailed(i, code)
          \/ LoadQrCreateReturns(i)
          \/ UpdateQrListed(i)
          \/ UpdateQrWritten(i)
          \/ UpdateQrFails(i)
          \/ UpdateQrNotFound(i)

SpecQrTwice == Init /\ [][NextQrTwice]_allVars

\* Settings that hold both updates of QrUpdates.
BothUpdated(settings) ==
    \A upd \in QrUpdates : \A f \in DOMAIN upd : settings[f] = upd[f]

\* C27: when two updates of different fields are called back to back, the
\* in-memory settings, the cache entry and the settings the second call
\* sends to the backend hold both new values.
C27_BothUpdatesTakeEffect ==
    [][Len(qProcs') = Len(qProcs) + 2
       => /\ BothUpdated(qrSettings')
          /\ localStorage'[QrKey(qrUser)].kind = "json"
          /\ BothUpdated(localStorage'[QrKey(qrUser)].val)
          /\ qProcs'[Len(qProcs')].pc = "list"
             => BothUpdated(qProcs'[Len(qProcs')].settings)]_allVars

\* ------------------------------------------------- sign out, then sign in
\* authService.logout up to its deleteSession call: it removes the cache
\* entries profile_<user> and profile, and no other entry.
LogoutClearsProfileCache ==
    /\ mounted
    /\ user # NoUser
    /\ localStorage' =
          [k \in DOMAIN localStorage |->
              IF k \in {"profile", ProfileKey(user)} THEN NoItem ELSE localStorage[k]]
    /\ UNCHANGED <<started, mounted, vars_profile, qrVars, contactsVars>>

\* The contacts provider over sign-ins and sign-outs in one browser: an
\* account signs in when nobody is signed in, and is signed out after
\* logout has cleared its cache entries.
NextRelogin ==
    \/ MountAll
    \/ \E u \in Users : user = NoUser /\ SetUserAll(u)
    \/ LogoutClearsProfileCache
    \/ /\ localStorage["profile"] = NoItem
       /\ localStorage[ProfileKey(user)] = NoItem
       /\ SetUserAll(NoUser)
    \/ \E i \in 1..MaxOps :
          \/ LoadContactsListed(i)
          \/ LoadContactsFailed(i)

SpecRelogin == Init /\ [][NextRelogin]_allVars

\* C28: while userB is signed in, no contact of userA is in the in-memory
\* list of contacts, whether userB's fetch is in flight, has answered or has
\* failed.
C28_NoContactOfPreviousUser ==
    user = "userB" => \A k \in DOMAIN contacts : contacts[k].user_id # "userA"

\* ------------------------------------------------------------ own QR code
\* The profiles whose QR code the model scans, with texts for their fields
\* and socials in the order of Object.entries: an ordinary profile, sparse
\* ones, and profiles with a colon, a semicolon or outer spaces in a field,
\* and with several socials.
CardProfile(name, title, company, email, phone, socials) ==
    [name |-> name, title |-> title, company |-> company, email |-> email,
     phone |-> phone, socials |-> socials]
CardProfiles ==
    {CardProfile(<<"J", "a", "n", "e", " ", "D", "o", "e">>, <<"C", "T", "O">>, <<"A", "c", "m", "e">>, <<"j", "@", "x", ".", "i", "o">>, <<"+", "1", " ", "5", "5", "5">>,
                 <<<<<<"l", "i", "n", "k", "e", "d", "i", "n">>, <<"h", "t", "t", "p", "s", ":", "/", "/", "l", "i", "n", "k", "e", "d", "i", "n", ".", "c", "o", "m", "/", "i", "n", "/", "j", "a", "n", "e">>>>>>),
     CardProfile(<<"J", "a", "n", "e">>, << >>, << >>, << >>, << >>, << >>),
     CardProfile(<< >>, << >>, << >>, <<"j", "@", "x", ".", "i", "o">>, << >>,
                 <<<<<<"t", "w", "i", "t", "t", "e", "r">>, << >>>>>>),
     CardProfile(<< >>, << >>, << >>, << >>, << >>, << >>),
     CardProfile(<<"J", "a", "n", "e">>, <<"C", "T", "O", ":", " ", "p", "l", "a", "t", "f", "o", "r", "m">>, << >>, << >>, << >>,
                 <<<<<<"x">>, <<"h", "t", "t", "p", "s", ":", "/", "/", "x", ".", "c", "o", "m", "/", "j", "a", "n", "e">>>>>>),
     CardProfile(<<"J", "a", "n", "e">>, << >>, << >>, << >>, << >>,
                 <<<<<<"g", "i", "t", "h", "u", "b">>, <<"h", "t", "t", "p", "s", ":", "/", "/", "g", "i", "t", "h", "u", "b", ".", "c", "o", "m", "/", "j", "a", "n", "e">>>>,
                   <<<<"w", "e", "b", "s", "i", "t", "e">>, <<"h", "t", "t", "p", "s", ":", "/", "/", "j", "a", "n", "e", ".", "i", "o">>>>>>),
     CardProfile(<<"D", "o", "e", ";", " ", "J", "a", "n", "e">>, << >>, <<"A", "c", "m", "e", ";", " ", "L", "a", "b">>, << >>, << >>, << >>),
     CardProfile(<<"J", "a", "n", "e">>, <<" ", "C", "T", "O">>, << >>, << >>, << >>, << >>)}

\* generateQrData() for a profile: the vCard text of the profile's non-empty
\* fields, one URL line for each social with a non-empty url.
generateQrData(p) ==
    LET line(key, value) ==
            IF value = << >> THEN << >> ELSE key \o value \o <<"\n">>
        RECURSIVE urls(_)
        urls(socials) ==
            IF socials = << >> THEN << >>
            ELSE (IF Head(socials)[2] = << >> THEN << >>
                  ELSE <<"U", "R", "L", ";", "t", "y", "p", "e", "=">> \o Head(socials)[1] \o <<":">>
                          \o Head(socials)[2] \o <<"\n">>)
                 \o urls(Tail(socials))
    IN <<"B", "E", "G", "I", "N", ":", "V", "C", "A", "R", "D", "\n", "V", "E", "R", "S", "I", "O", "N", ":", "3", ".", "0", "\n">>
          \o line(<<"F", "N", ":">>, p.name)
          \o (IF p.name = << >> THEN << >> ELSE <<"N", ":">> \o p.name \o <<";", ";", ";", ";", "\n">>)
          \o line(<<"T", "I", "T", "L", "E", ":">>, p.title)
          \o line(<<"O", "R", "G", ":">>, p.company)
          \o line(<<"E", "M", "A", "I", "L", ":">>, p.email)
          \o line(<<"T", "E", "L", ":">>, p.phone)
          \o urls(p.socials)
          \o <<"N", "O", "T", "E", ":", "C", "o", "n", "t", "a", "c", "t", " ", "f", "r", "o", "m", " ", "C", "o", "n", "f", "e", "r", "e", "n", "c", "e", " ", "C", "o", "n", "t", "a", "c", "t", " ", "T", "r", "a", "c", "k", "e", "r", "\n", "E", "N", "D", ":", "V", "C", "A", "R", "D">>

\* The scan page scanning the QR codes the profile card shows.
NextCard ==
    \/ MountAll
    \/ \E u \in {"userA", NoUser} : SetUserAll(u)
    \/ \E granted \in BOOLEAN : StartCamera(granted)
    \/ \E i \in 1..MaxOps :
          \/ LoadContactsListed(i)
          \/ LoadContactsFailed(i)
          \/ AddContactSucceeds(i)
          \/ AddContactFails(i)
    \/ \E p \in CardProfiles : HandleQrDetected(generateQrData(p))

SpecCard == InitAll /\ [][NextCard]_allVars

\* C29: when the page has scanned the QR code of a profile, the contact's
\* name, title, company, email and phone are the profile's non-empty fields,
\* and its socials hold every non-empty social url of the profile.
C29_RoundTrip ==
    \A p \in CardProfiles :
        scanResult.def /\ scanResult.s = generateQrData(p)
        => /\ parsedData.kind = "contact"
           /\ \A f \in {"name", "title", "company", "email", "phone"} :
                 p[f] # << >> => parsedData.c[f] = Txt(p[f])
           /\ \A k \in DOMAIN p.socials :
                 p.socials[k][2] # << >>
                 => \E e \in parsedData.c.socials : e[2] = p.socials[k][2]

\* -------------------------------------------------------------- termination
\* The answer of the remote call that invocation i of the profile hook, or of
\* the QR-settings hook, is waiting for.
ProfileAnswer(i) ==
    \/ LoadFetched(i)
    \/ LoadNotFound(i)
    \/ LoadFetchFailed(i)
    \/ LoadCreateReturns(i)
    \/ LoadFileChecked(i)
    \/ LoadPictureCleared(i)
    \/ UpdatePreGetReturns(i)
    \/ UpdateSucceeds(i)
    \/ UpdateNotFound(i)
    \/ UpdateFails(i)
    \/ UpdateCreateSucceeds(i)
    \/ UpdateCreateFails(i)

QrAnswer(i) ==
    \/ LoadQrListed(i)
    \/ \E code \in {404, 500} : LoadQrListFailed(i, code)
    \/ LoadQrCreateReturns(i)
    \/ UpdateQrListed(i)
    \/ UpdateQrWritten(i)
    \/ UpdateQrFails(i)
    \/ UpdateQrNotFound(i)

\* While the auth state is unresolved, the other invocations leave room in
\* the bound on invocations for the load that its resolution starts.
RoomToResolve == authLoading => started < MaxOps - 1

\* The profile and QR-settings hooks together.
NextLive ==
    \/ MountAll
    \/ \E u \in {"userA", NoUser} : RoomToResolve /\ SetUser(u)
    \/ \E data \in ProfileUpdates : RoomToResolve /\ UpdateProfile(data)
    \/ QrCheckAuthStatus
    \/ \E u \in {"userA", NoUser} : QrAuthResolved(u)
    \/ \E upd \in QrUpdates : RoomToResolve /\ UpdateQrSettings(upd)
    \/ \E i \in 1..MaxOps : ProfileAnswer(i) \/ QrAnswer(i)

\* Every remote call returns, the auth state resolves, and the providers
\* mount: weak fairness of each invocation's answer, of the resolution and of
\* the mount.  The handlers the user starts have no fairness.
\* The count starts with the budget that MaxLiveOps leaves spent.
InitLive == InitStores /\ started = MaxOps - MaxLiveOps

SpecLive ==
    /\ InitLive
    /\ [][NextLive]_allVars
    /\ WF_allVars(MountAll)
    /\ WF_allVars(\E u \in {"userA", NoUser} : QrAuthResolved(u))
    /\ \A i \in 1..MaxOps :
          WF_allVars(ProfileAnswer(i)) /\ WF_allVars(QrAnswer(i))

\* C30: whenever the profile hook or the QR-settings hook is loading, it
\* later is not: every load and update ends with isLoading = false.
C30_LoadingEnds ==
    /\ isLoading ~> ~isLoading
    /\ qrIsLoading ~> ~qrIsLoading

\* A load of each hook has failed remotely, and neither hook is loading.
C30_Witness ==
    /\ ~isLoading /\ ~qrIsLoading
    /\ \E i \in DOMAIN pProcs : pProcs[i].kind = "loadProfile" /\ pProcs[i].pc = "failed"
    /\ \E i \in DOMAIN qProcs : qProcs[i].kind = "loadQr" /\ qProcs[i].pc = "failed"

====
